---- MODULE Spec2Model ----
(***************************************************************************)
(* Model of the nexus-ai note editor: the contentEditable document of      *)
(* src/components/Editor.tsx with its slash commands, table insertion, AI  *)
(* requests and serialization on blur.                                     *)
(*                                                                         *)
(* A string is a sequence of one-character strings.  A DOM node is a       *)
(* record [id, type, text, kids, cls, checked]; the editor root is the     *)
(* node with id 0 and `doc` is the sequence of its children.  A boundary   *)
(* point is [n, o] (node id, DOM offset) and a Range is [sn, so, en, eo].  *)
(***************************************************************************)
EXTENDS Integers, Sequences, FiniteSets, TLC

(* ------------------------------- bounds -------------------------------- *)
(* AI requests in flight, changes made to the document *)
MaxPending == 2
MaxEdits == 2
(* the length of the transcript up to which results are delivered *)
MaxTranscript == 2
(* the times a modal is opened, the clock readings *)
MaxMounts == 2
MaxNow == 3
(* wheel events on one canvas *)
MaxWheel == 3
(* calls of calculateLayout *)
MaxCalls == 2
(* mouse events on one canvas *)
MaxMouse == 4
(* the notes of the collection when one is added by hand *)
MaxNotes == 2

(* characters the user types *)
Chars == {"/", "a", " "}

(* ------------------------------- strings ------------------------------- *)
NBSP == "nbsp"
Ws == {" ", NBSP, "\n\n"}

RECURSIVE TrimLeft(_)
TrimLeft(s) ==
  IF s # <<>> /\ Head(s) \in Ws THEN TrimLeft(Tail(s)) ELSE s

RECURSIVE TrimRight(_)
TrimRight(s) ==
  IF s # <<>> /\ s[Len(s)] \in Ws THEN TrimRight(SubSeq(s, 1, Len(s) - 1)) ELSE s

Trim(s) == TrimRight(TrimLeft(s))

StartsWith(s, p) == Len(p) <= Len(s) /\ SubSeq(s, 1, Len(p)) = p

(* a variant that looks for p at the start of s only *)
IncludesAtStart(s, p) ==
  Len(p) <= Len(s) /\ SubSeq(s, 1, Len(p)) = p

Includes(s, p) ==
  \E i \in 0..(Len(s) - Len(p)) : SubSeq(s, i + 1, i + Len(p)) = p

RECURSIVE ConcatAll(_)
ConcatAll(ss) == IF ss = <<>> THEN <<>> ELSE Head(ss) \o ConcatAll(Tail(ss))

SeqRemove(s, i) == SubSeq(s, 1, i - 1) \o SubSeq(s, i + 1, Len(s))

SeqInsert(s, i, xs) == SubSeq(s, 1, i) \o xs \o SubSeq(s, i + 1, Len(s))

(* ------------------------------ DOM nodes ------------------------------ *)
TextNode(id, t) ==
  [id |-> id, type |-> "#text", text |-> t, kids |-> <<>>, cls |-> "", checked |-> FALSE]

Element(id, type, kids) ==
  [id |-> id, type |-> type, text |-> <<>>, kids |-> kids, cls |-> "", checked |-> FALSE]

RootId == 0
Detached == -2

EditorRoot(d) == Element(RootId, "div", d)

RECURSIVE textContent(_)
textContent(n) ==
  IF n.type = "#text" THEN n.text
  ELSE ConcatAll([i \in 1..Len(n.kids) |-> textContent(n.kids[i])])

RECURSIVE Ids(_)
Ids(n) == {n.id} \cup UNION {Ids(n.kids[i]) : i \in 1..Len(n.kids)}

RECURSIVE Preorder(_)
Preorder(n) == <<n.id>> \o ConcatAll([i \in 1..Len(n.kids) |-> Preorder(n.kids[i])])

RECURSIVE FindNode(_, _)
FindNode(n, id) ==
  IF n.id = id THEN n
  ELSE FindNode(n.kids[CHOOSE i \in 1..Len(n.kids) : id \in Ids(n.kids[i])], id)

RECURSIVE ParentOf(_, _)
ParentOf(n, id) ==
  IF \E i \in 1..Len(n.kids) : n.kids[i].id = id THEN n
  ELSE ParentOf(n.kids[CHOOSE i \in 1..Len(n.kids) : id \in Ids(n.kids[i])], id)

(* DOM index (0-based) of the child `id` of node p *)
IndexOf(p, id) == (CHOOSE i \in 1..Len(p.kids) : p.kids[i].id = id) - 1

RECURSIVE Update(_, _, _)
Update(n, id, new) ==
  IF n.id = id THEN new
  ELSE [n EXCEPT !.kids = [i \in 1..Len(n.kids) |-> Update(n.kids[i], id, new)]]

SetKids(root, id, ks) == Update(root, id, [FindNode(root, id) EXCEPT !.kids = ks])

SetText(root, id, t) == Update(root, id, [FindNode(root, id) EXCEPT !.text = t])

IsText(root, id) == FindNode(root, id).type = "#text"

(* length of a node in the DOM sense *)
NodeLength(n) == IF n.type = "#text" THEN Len(n.text) ELSE Len(n.kids)

(* ------------------------------- ranges -------------------------------- *)
NoRange == [sn |-> -1, so |-> 0, en |-> -1, eo |-> 0]

Caret(n, o) == [sn |-> n, so |-> o, en |-> n, eo |-> o]

IsCollapsed(r) == r.sn = r.en /\ r.so = r.eo

MapRange(r, F(_, _)) ==
  IF r = NoRange THEN r
  ELSE LET Between(s, e) == [sn |-> s.n, so |-> s.o, en |-> e.n, eo |-> e.o]
       IN Between(F(r.sn, r.so), F(r.en, r.eo))

(* A DOM state: the tree and every live Range object that exists. *)
Dom(root, rs) == [root |-> root, rs |-> rs]

MapRanges(rs, F(_, _)) == [i \in 1..Len(rs) |-> MapRange(rs[i], F)]

(* live-range rule of "remove": child i of p leaves the tree *)
DomRemove(D, pid, i) ==
  LET Remove(p, gone) ==
        LET Adj(n, o) == IF n \in gone THEN [n |-> pid, o |-> i]
                         ELSE IF n = pid /\ o > i THEN [n |-> n, o |-> o - 1]
                         ELSE [n |-> n, o |-> o]
        IN Dom(SetKids(D.root, pid, SeqRemove(p.kids, i + 1)), MapRanges(D.rs, Adj))
  IN Remove(FindNode(D.root, pid),
            IF pid \in Ids(D.root) THEN Ids(FindNode(D.root, pid).kids[i + 1]) ELSE {})

(* live-range rule of "insert": nodes ns become children i.. of p *)
DomInsert(D, pid, i, ns) ==
  LET Adj(n, o) == IF n = pid /\ o > i THEN [n |-> n, o |-> o + Len(ns)]
                   ELSE [n |-> n, o |-> o]
  IN Dom(SetKids(D.root, pid, SeqInsert(FindNode(D.root, pid).kids, i, ns)),
         MapRanges(D.rs, Adj))

(* "replace all" with nothing: node.innerHTML = '' *)
RECURSIVE DomClear(_, _)
DomClear(D, id) ==
  IF FindNode(D.root, id).kids = <<>> THEN D
  ELSE DomClear(DomRemove(D, id, 0), id)

(* "replace data" of a Text node: count characters at offset become data *)
DomReplaceData(D, id, offset, count, data) ==
  LET Adj(n, o) ==
        IF n # id THEN [n |-> n, o |-> o]
        ELSE IF o > offset /\ o <= offset + count THEN [n |-> n, o |-> offset]
        ELSE IF o > offset + count THEN [n |-> n, o |-> o + Len(data) - count]
        ELSE [n |-> n, o |-> o]
      Replaced(t) == SubSeq(t, 1, offset) \o data \o SubSeq(t, offset + count + 1, Len(t))
  IN Dom(SetText(D.root, id, Replaced(FindNode(D.root, id).text)), MapRanges(D.rs, Adj))

(* "split" a Text node at offset; the tail becomes the new node newId *)
DomSplitText(D, id, offset, newId) ==
  LET Split(t, pid, idx) ==
        LET Adj(n, o) ==
              IF n = id /\ o > offset THEN [n |-> newId, o |-> o - offset]
              ELSE IF n = pid /\ o = idx + 1 THEN [n |-> n, o |-> o + 1]
              ELSE [n |-> n, o |-> o]
            Head2(D1) == Dom(SetText(D1.root, id, SubSeq(t, 1, offset)),
                             MapRanges(D1.rs, Adj))
        IN Head2(DomInsert(D, pid, idx + 1,
                           <<TextNode(newId, SubSeq(t, offset + 1, Len(t)))>>))
      Under(p) == Split(FindNode(D.root, id).text, p.id, IndexOf(p, id))
  IN Under(ParentOf(D.root, id))

(* ------------------------- boundary point order ------------------------ *)
(* Euler tour of the tree: an "o" item when a node opens, one "c" item per *)
(* character of a Text node, an "x" item when the node closes.  A boundary *)
(* point is the gap after some item; gaps order boundary points in tree    *)
(* order.                                                                  *)
RECURSIVE Tour(_)
Tour(n) ==
  <<[k |-> "o", id |-> n.id]>>
  \o (IF n.type = "#text" THEN [i \in 1..Len(n.text) |-> [k |-> "c", id |-> n.id]]
      ELSE ConcatAll([i \in 1..Len(n.kids) |-> Tour(n.kids[i])]))
  \o <<[k |-> "x", id |-> n.id]>>

OpenIdx(tour, id) == CHOOSE i \in 1..Len(tour) : tour[i] = [k |-> "o", id |-> id]
CloseIdx(tour, id) == CHOOSE i \in 1..Len(tour) : tour[i] = [k |-> "x", id |-> id]

Gap(root, tour, n, o) ==
  LET At(nd) == IF nd.type = "#text" THEN OpenIdx(tour, n) + o
                ELSE IF o < Len(nd.kids) THEN OpenIdx(tour, nd.kids[o + 1].id) - 1
                ELSE CloseIdx(tour, n) - 1
  IN At(FindNode(root, n))

(* nodes contained in the range r (DOM "contained") *)
Contained(root, r) ==
  LET Within(tour, gs, ge) ==
        {x \in Ids(root) \ {root.id} :
           gs < OpenIdx(tour, x) /\ CloseIdx(tour, x) - 1 < ge}
      On(tour) == Within(tour, Gap(root, tour, r.sn, r.so), Gap(root, tour, r.en, r.eo))
  IN On(Tour(root))

IsInclusiveAncestor(root, a, b) == b \in Ids(FindNode(root, a))

(* Selection.toString(): the text of the range *)
RangeText(root, r) ==
  IF r = NoRange \/ ~({r.sn, r.en} \subseteq Ids(root)) THEN <<>>
  ELSE LET RECURSIVE Collect(_, _, _)
           Collect(tour, i, ge) ==
             IF i > ge THEN <<>>
             ELSE (IF tour[i].k = "c"
                   THEN <<FindNode(root, tour[i].id).text[i - OpenIdx(tour, tour[i].id)]>>
                   ELSE <<>>) \o Collect(tour, i + 1, ge)
           On(tour) == Collect(tour, Gap(root, tour, r.sn, r.so) + 1,
                               Gap(root, tour, r.en, r.eo))
       IN On(Tour(root))

(* ---------------------------- Range methods ---------------------------- *)
SetRange(D, k, r) == Dom(D.root, [D.rs EXCEPT ![k] = r])

RECURSIVE DomRemoveAll(_, _)
DomRemoveAll(D, S) ==
  IF S = {} THEN D
  ELSE LET First(tour) == CHOOSE y \in S : \A z \in S : OpenIdx(tour, y) <= OpenIdx(tour, z)
           Without(x, p) == DomRemoveAll(DomRemove(D, p.id, IndexOf(p, x)), S \ {x})
           Drop(x) == Without(x, ParentOf(D.root, x))
       IN Drop(First(Tour(D.root)))

RECURSIVE RefAncestor(_, _, _)
RefAncestor(root, ref, en) ==
  IF ref = root.id \/ IsInclusiveAncestor(root, ParentOf(root, ref).id, en) THEN ref
  ELSE RefAncestor(root, ParentOf(root, ref).id, en)

(* Range.deleteContents() on the live range D.rs[k] *)
DeleteContents(D, k) ==
  LET r == D.rs[k]
      root == D.root
      Tops(inside) == {x \in inside : ParentOf(root, x).id \notin inside}
      After(ref, p) == [n |-> p.id, o |-> IndexOf(p, ref) + 1]
      AfterRef(ref) == After(ref, ParentOf(root, ref))
      New == IF IsInclusiveAncestor(root, r.sn, r.en)
             THEN [n |-> r.sn, o |-> r.so]
             ELSE AfterRef(RefAncestor(root, r.sn, r.en))
      StartCut == IF IsText(root, r.sn)
                  THEN DomReplaceData(D, r.sn, r.so,
                                      Len(FindNode(root, r.sn).text) - r.so, <<>>)
                  ELSE D
      EndCut(D2) == IF IsText(root, r.en) THEN DomReplaceData(D2, r.en, 0, r.eo, <<>>)
                    ELSE D2
      Collapse(D3, new) == SetRange(D3, k, Caret(new.n, new.o))
  IN IF r = NoRange \/ IsCollapsed(r) \/ ~({r.sn, r.en} \subseteq Ids(root)) THEN D
     ELSE IF r.sn = r.en /\ IsText(root, r.sn)
     THEN DomReplaceData(D, r.sn, r.so, r.eo - r.so, <<>>)
     ELSE Collapse(EndCut(DomRemoveAll(StartCut, Tops(Contained(root, r)))), New)

(* Range.insertNode(node) on the live range D.rs[k]; ns are the inserted   *)
(* nodes (one node, or the children of a DocumentFragment); splitId names  *)
(* the Text node a split creates.                                          *)
InsertNode(D, k, ns, splitId) ==
  LET r == D.rs[k]
      root == D.root
      Extend(D2, pid, at) ==
        IF IsCollapsed(D2.rs[k])
        THEN SetRange(D2, k, [D2.rs[k] EXCEPT !.en = pid, !.eo = at + Len(ns)])
        ELSE D2
      Into(D1, pid, at) == Extend(DomInsert(D1, pid, at, ns), pid, at)
      InText(p) == Into(DomSplitText(D, r.sn, r.so, splitId), p.id, IndexOf(p, r.sn) + 1)
  IN IF r = NoRange \/ r.sn \notin Ids(root) THEN D
     ELSE IF IsText(root, r.sn) THEN InText(ParentOf(root, r.sn))
     ELSE Into(D, r.sn, r.so)

(* --------------------------- canonical node ids ------------------------ *)
(* Node identity is not observable by the program beyond object equality,  *)
(* so after every step nodes are renumbered by document position; a Range  *)
(* whose container is no longer in the tree gets the id Detached.          *)
NewId(order, id) ==
  IF \E i \in 1..Len(order) : order[i] = id
  THEN (CHOOSE i \in 1..Len(order) : order[i] = id) - 1
  ELSE Detached

RECURSIVE Relabel(_, _)
Relabel(n, order) ==
  [n EXCEPT !.id = NewId(order, n.id),
            !.kids = [i \in 1..Len(n.kids) |-> Relabel(n.kids[i], order)]]

RelabelRange(r, order) ==
  IF r = NoRange THEN r
  ELSE [r EXCEPT !.sn = NewId(order, r.sn), !.en = NewId(order, r.en)]

Canon(D) ==
  LET In(order) ==
        Dom(Relabel(D.root, order), [i \in 1..Len(D.rs) |-> RelabelRange(D.rs[i], order)])
  IN In(Preorder(D.root))

(* ids for nodes created inside one step, distinct from every id in use *)
Fresh(k) == 100 + k

(* ---------------------------- getBlockContainer ------------------------ *)
NoBlock == -1

getBlockContainer(root, node) ==
  IF node \notin Ids(root) \/ node = root.id THEN NoBlock
  ELSE LET Block(b) == IF b.type = "#text" THEN NoBlock ELSE b.id
       IN Block(root.kids[CHOOSE i \in 1..Len(root.kids) : node \in Ids(root.kids[i])])

(* ids of a freshly built subtree: base, base+1, ... in document order *)
RECURSIVE Renumber(_, _)
Renumber(n, base) ==
  [n EXCEPT !.id = base,
            !.kids = [i \in 1..Len(n.kids) |->
                        Renumber(n.kids[i],
                                 base + 1 + Len(ConcatAll([j \in 1..(i - 1) |->
                                                             Preorder(n.kids[j])])))]]

(* the children ks of one parent, numbered from base on *)
RenumberAll(ks, base) == Renumber(Element(base - 1, "frag", ks), base - 1).kids

Br == Element(0, "br", <<>>)

(* ------------------------------- markdown ------------------------------ *)
(* Markdown text is modelled by its block structure: a sequence of records *)
(* [k, t, items].  k is the block kind, t its text (for a list: the bullet *)
(* marker), items the list items [t, box] with box in {"none","[ ]","[x]"}.*)
MdBlock(k, t) == [k |-> k, t |-> t, items |-> <<>>]
MdList(k, marker, items) == [k |-> k, t |-> marker, items |-> items]
MdItem(t, box) == [t |-> t, box |-> box]

TodoGlue == <<"-", " ", "[", " ", "]", " ">>

RECURSIVE HasVoid(_)
HasVoid(n) ==
  n.type \in {"br", "input"} \/ \E i \in 1..Len(n.kids) : HasVoid(n.kids[i])

(* turndown's isBlank: no text and no void element inside *)
IsBlank(n) == ~HasVoid(n) /\ Trim(textContent(n)) = <<>>

(* the 'todo' rule of Editor.tsx: "- [x] content" or "- [ ] content" *)
TodoReplacement(li) ==
  LET boxes == {i \in 1..Len(li.kids) : li.kids[i].type = "input"}
      checked == boxes # {} /\ li.kids[CHOOSE i \in boxes : TRUE].checked
  IN MdItem(Trim(textContent(li)), IF checked THEN "[x]" ELSE "[ ]")

IsTodoItem(n) == n.type = "li" /\ n.cls = "todo-list-item"

(* the items of one list: a to-do item carries no line break of its own,   *)
(* so it is joined to the item that follows it.                            *)
RECURSIVE ListItems(_)
ListItems(lis) ==
  IF lis = <<>> THEN <<>>
  ELSE LET li == Head(lis)
           Join(me, rest) ==
             IF IsBlank(li) THEN rest
             ELSE IF IsTodoItem(li) /\ rest # <<>>
             THEN <<MdItem(me.t \o (IF Head(rest).box = "none" THEN <<"*", " ">>
                                    ELSE TodoGlue)
                                \o Head(rest).t, me.box)>> \o Tail(rest)
             ELSE <<me>> \o rest
       IN Join(IF IsTodoItem(li) THEN TodoReplacement(li)
               ELSE MdItem(Trim(textContent(li)), "none"),
               ListItems(Tail(lis)))

RECURSIVE CellBlocks(_)
CellBlocks(n) ==
  IF n.type \in {"th", "td"}
  THEN (IF IsBlank(n) THEN <<>> ELSE <<MdBlock("p", Trim(textContent(n)))>>)
  ELSE ConcatAll([i \in 1..Len(n.kids) |-> CellBlocks(n.kids[i])])

(* the markdown of one element child of the editor *)
BlockMd(n) ==
  IF IsBlank(n) THEN <<>>
  ELSE IF n.type = "br" THEN <<MdBlock("br", <<>>)>>
  ELSE IF n.type \in {"ul", "ol"}
  THEN <<MdList(n.type, IF \E i \in 1..Len(n.kids) : IsTodoItem(n.kids[i])
                        THEN <<"-">> ELSE <<"*">>,
                ListItems(n.kids))>>
  ELSE IF n.type = "table" THEN CellBlocks(n)
  ELSE <<MdBlock(n.type, Trim(textContent(n)))>>

(* children in order; neighbouring inline children (Text nodes) form one   *)
(* paragraph                                                               *)
RECURSIVE TurndownKids(_, _)
TurndownKids(ks, run) ==
  LET flush == IF Trim(run) = <<>> THEN <<>> ELSE <<MdBlock("p", Trim(run))>>
  IN IF ks = <<>> THEN flush
     ELSE IF Head(ks).type = "#text" THEN TurndownKids(Tail(ks), run \o Head(ks).text)
     ELSE flush \o BlockMd(Head(ks)) \o TurndownKids(Tail(ks), <<>>)

IsWhitespaceMd(b) == b.k \in {"p", "br", "pre"} /\ b.t = <<>>

RECURSIVE StripTrailing(_)
StripTrailing(md) ==
  IF md # <<>> /\ IsWhitespaceMd(md[Len(md)])
  THEN StripTrailing(SubSeq(md, 1, Len(md) - 1))
  ELSE md

(* turndownService.turndown(editor.innerHTML) *)
Turndown(d) == StripTrailing(TurndownKids(d, <<>>))

(* marked.parse(markdown) followed by the to-do post-processing of the     *)
(* initial render: one element per markdown block, placeholder ids.        *)
MarkedItem(it, isTodo) ==
  IF it.box = "none" THEN Element(0, "li", <<TextNode(0, it.t)>>)
  ELSE [Element(0, "li",
                <<[Element(0, "input", <<>>) EXCEPT !.checked = (it.box = "[x]"),
                                                    !.cls = IF it.box = "[x]"
                                                            THEN "checked" ELSE ""],
                  TextNode(0, <<" ">> \o it.t)>>)
        EXCEPT !.cls = IF isTodo THEN "todo-list-item" ELSE ""]

MarkedBlock(b, isTodo) ==
  IF IsWhitespaceMd(b) THEN <<>>
  ELSE IF b.k \in {"ul", "ol"}
  THEN <<[Element(0, b.k, [i \in 1..Len(b.items) |-> MarkedItem(b.items[i], isTodo)])
          EXCEPT !.cls = IF isTodo /\ b.k = "ul"
                            /\ \E i \in 1..Len(b.items) : b.items[i].box # "none"
                         THEN "todo-list" ELSE ""]>>
  ELSE IF b.k = "pre"
  THEN <<Element(0, "pre", <<Element(0, "code", <<TextNode(0, b.t)>>)>>)>>
  ELSE <<Element(0, b.k, IF b.t = <<>> THEN <<>> ELSE <<TextNode(0, b.t)>>)>>

Marked(md, isTodo) == ConcatAll([i \in 1..Len(md) |-> MarkedBlock(md[i], isTodo)])

(* element.innerHTML read and parsed again: new nodes, neighbouring Text   *)
(* nodes become one, empty Text nodes disappear, a checkbox is checked     *)
(* only if it has the attribute.                                           *)
RECURSIVE Reparse(_)
RECURSIVE ReparseKids(_)
ReparseKids(ks) ==
  IF ks = <<>> THEN <<>>
  ELSE IF Head(ks).type = "#text"
  THEN (IF Head(ks).text = <<>> THEN ReparseKids(Tail(ks))
        ELSE IF Len(ks) > 1 /\ ks[2].type = "#text"
        THEN ReparseKids(<<TextNode(0, ks[1].text \o ks[2].text)>> \o SubSeq(ks, 3, Len(ks)))
        ELSE <<Head(ks)>> \o ReparseKids(Tail(ks)))
  ELSE <<Reparse(Head(ks))>> \o ReparseKids(Tail(ks))

Reparse(n) ==
  [n EXCEPT !.kids = ReparseKids(n.kids),
            !.checked = (n.type = "input" /\ n.cls = "checked")]

(* ================================ state ================================ *)
VARIABLES
  doc,              \* children of the contentEditable root (editorRef.current)
  ranges,           \* the live Range objects, by handle 1..Len(ranges)
  sel,              \* handle of window.getSelection()'s range inside the editor, 0 if none
  savedRange,       \* Editor state savedRange: a handle, 0 for null
  slashMenuState,   \* Editor state [isOpen, query]
  selectedIndex,    \* SlashCommandMenu state, 0 while the menu is not mounted
  isAssistantOpen,  \* Editor state
  aiTriggerMode,    \* Editor state
  selectedText,     \* Editor state
  assistantPosition,\* Editor state: TRUE when not null
  isTableModalOpen, \* Editor state
  modal,            \* TableGeneratorModal state [rows, cols]
  assistant,        \* AIAssistant state [isLoading, error]
  aiReqs,           \* calls of handleAiRequest waiting for the service
  note,             \* the active note record [content, lastModified]
  isListening,      \* useSpeechRecognition state
  transcript,       \* useSpeechRecognition state: the words heard in this session
  sttError,         \* useSpeechRecognition state error: "" for null, or the message
  listeningIntentionally, \* listeningIntentionallyRef.current
  retryCount,       \* retryCount of the effect that creates the recognition
  retryTimeout,     \* the delay of the retry timer that is pending, 0 if none
  recognition,      \* the browser's SpeechRecognition: idle, active, stopping, ending
  dictation,        \* what happened in the dictation session since start() (ghost)
  notes,            \* App state: the notes [id, title, content, lastModified, type]
  activeNoteId,     \* App state: the id of the note in the editor, 0 for null
  isGeneratorModalOpen, \* App state
  generator,        \* NoteGeneratorModal state [inst, topic, isLoading, error, generationType]
  genReqs,          \* calls of handleGenerateNote waiting for the service
  now,              \* Date.now()
  isVisualizationModalOpen, \* Editor state
  viz,              \* VisualizationModal state [inst, mindMap, isLoading, error, transform]
  vizReqs,          \* calls of generateMindMap waiting for the service
  layout,           \* the call of calculateLayout that is running, and what calls returned
  edits,            \* the number of changes made to the document so far
  lastOp            \* the handler that ran last, with what it saw

vars == <<doc, ranges, sel, savedRange, slashMenuState, selectedIndex, isAssistantOpen,
          aiTriggerMode, selectedText, assistantPosition, isTableModalOpen, modal,
          assistant, aiReqs, note, isListening, transcript, sttError,
          listeningIntentionally, retryCount, retryTimeout, recognition, dictation,
          notes, activeNoteId, isGeneratorModalOpen, generator, genReqs, now,
          isVisualizationModalOpen, viz, vizReqs, layout, edits, lastOp>>

domVars == <<doc, ranges, sel, savedRange, aiReqs>>
uiVars == <<slashMenuState, selectedIndex, isAssistantOpen, aiTriggerMode, selectedText,
            assistantPosition, isTableModalOpen, modal, assistant>>
sttVars == <<isListening, transcript, sttError, listeningIntentionally, retryCount,
             retryTimeout, recognition, dictation>>
appVars == <<notes, activeNoteId, isGeneratorModalOpen, generator, genReqs, now>>
vizVars == <<isVisualizationModalOpen, viz, vizReqs, layout>>

(* a step that changes the document counts as an edit *)
Edit == edits < MaxEdits /\ edits' = edits + 1

Root == EditorRoot(doc)
RangeOf(h) == IF h = 0 THEN NoRange ELSE ranges[h]

(* what the last step did: the handler that ran (name) and, where they     *)
(* apply, the command, the index of the cursor's block, whether that block *)
(* or the saved range counted as empty/present, whether the note was       *)
(* written, the numbers entered or passed, the text passed, and for a      *)
(* table the step before it (prev) with the number entered there (k)       *)
Op(name) == [name |-> name, cmd |-> "", block |-> 0, empty |-> FALSE, wrote |-> FALSE,
             n |-> 0, m |-> 0, text |-> <<>>, prev |-> "", k |-> 0]

(* ---- committing a step: canonical node ids, unreferenced Ranges freed -- *)
(* D: the DOM after the step; s, sv: handles of the selection's range and  *)
(* of savedRange; rq: the pending requests (each holds a handle).          *)
Handles(s, sv, rq) ==
  LET all == <<s, sv>> \o [i \in 1..Len(rq) |-> rq[i].savedRange]
      RECURSIVE Uniq(_, _)
      Uniq(hs, seen) ==
        IF hs = <<>> THEN <<>>
        ELSE IF Head(hs) = 0 \/ Head(hs) \in seen THEN Uniq(Tail(hs), seen)
        ELSE <<Head(hs)>> \o Uniq(Tail(hs), seen \cup {Head(hs)})
  IN Uniq(all, {})

NewHandle(live, h) ==
  IF h = 0 THEN 0 ELSE CHOOSE i \in 1..Len(live) : live[i] = h

SetDom(D, s, sv, rq) ==
  LET Commit(C, live) ==
        /\ doc' = C.root.kids
        /\ ranges' = [i \in 1..Len(live) |-> C.rs[live[i]]]
        /\ sel' = NewHandle(live, s)
        /\ savedRange' = NewHandle(live, sv)
        /\ aiReqs' = [i \in 1..Len(rq) |->
                        [rq[i] EXCEPT !.savedRange = NewHandle(live, rq[i].savedRange)]]
  IN Commit(Canon(D), Handles(s, sv, rq))

(* the DOM before a step, and a new Range object in it *)
D0 == Dom(Root, ranges)
NewRange(D, r) == Dom(D.root, Append(D.rs, r))
Last(D) == Len(D.rs)

RECURSIVE Nodes(_)
Nodes(n) == {n} \cup UNION {Nodes(n.kids[i]) : i \in 1..Len(n.kids)}

(* ------------------------------ handleBlur ----------------------------- *)
(* content: activeNote.content as the closure that calls handleBlur sees   *)
(* it.  onEdit -> App.updateNote sets content and lastModified.            *)
BlurWrites(root, content) == Turndown(root.kids) # content

handleBlur(root, content) ==
  IF BlurWrites(root, content)
  THEN [content |-> Turndown(root.kids), lastModified |-> note.lastModified + 1]
  ELSE note

(* --------------------------- SlashCommandMenu -------------------------- *)
Command(title, tag, action) == [title |-> title, tag |-> tag, action |-> action]

ALL_COMMANDS ==
  << Command(<<"A","s","k"," ","A","I">>, "", "askAI"),
     Command(<<"H","e","a","d","i","n","g"," ","1">>, "h1", ""),
     Command(<<"H","e","a","d","i","n","g"," ","2">>, "h2", ""),
     Command(<<"H","e","a","d","i","n","g"," ","3">>, "h3", ""),
     Command(<<"B","u","l","l","e","t","e","d"," ","l","i","s","t">>, "", "bulletedList"),
     Command(<<"N","u","m","b","e","r","e","d"," ","l","i","s","t">>, "", "numberedList"),
     Command(<<"T","o","-","d","o"," ","l","i","s","t">>, "", "todoList"),
     Command(<<"B","l","o","c","k","q","u","o","t","e">>, "blockquote", ""),
     Command(<<"C","o","d","e"," ","b","l","o","c","k">>, "", "codeBlock"),
     Command(<<"T","a","b","l","e">>, "", "table") >>

toLowerCase(s) ==
  LET low == [c \in {"A", "B", "C", "H", "I", "N", "T"} |->
                CASE c = "A" -> "a" [] c = "B" -> "b" [] c = "C" -> "c" [] c = "H" -> "h"
                  [] c = "I" -> "i" [] c = "N" -> "n" [] c = "T" -> "t"]
  IN [i \in 1..Len(s) |-> IF s[i] \in DOMAIN low THEN low[s[i]] ELSE s[i]]

CommandMatches(command, query) == Includes(toLowerCase(command.title), toLowerCase(query))

filteredCommands(query) ==
  IF query = <<>> THEN ALL_COMMANDS
  ELSE SelectSeq(ALL_COMMANDS, LAMBDA command : CommandMatches(command, query))

(* a variant whose effect does not run when the length changes *)
MenuIndexKeeps(menu2) ==
  IF ~menu2.isOpen \/ ~slashMenuState.isOpen THEN 0 ELSE selectedIndex

(* selectedIndex after the Editor has rendered with the menu as menu2: the *)
(* menu starts at 0 when it is mounted, and its effect sets 0 when the     *)
(* length of the filtered list has changed                                 *)
MenuIndex(menu2) ==
  IF ~menu2.isOpen \/ ~slashMenuState.isOpen THEN 0
  ELSE IF Len(filteredCommands(menu2.query)) # Len(filteredCommands(slashMenuState.query))
  THEN 0
  ELSE selectedIndex

(* ------------------------------ handleInput ---------------------------- *)
(* a variant whose pattern lets whitespace follow the slash *)
CommandMatchLoose(blockText) ==
  /\ blockText # <<>>
  /\ blockText[1] = "/"

(* the regular expression of handleInput on the text before the caret: a  *)
(* slash followed by non-whitespace characters only                       *)
CommandMatch(blockText) ==
  /\ blockText # <<>>
  /\ blockText[1] = "/"
  /\ \A i \in 2..Len(blockText) : blockText[i] \notin Ws

(* a variant that leaves the menu as it is when the caret is in an element *)
handleInputInText(D, s, menu) ==
  LET r == IF s = 0 THEN NoRange ELSE D.rs[s]
  IN IF r = NoRange \/ ~IsCollapsed(r) \/ r.sn \notin Ids(D.root)
     THEN [menu EXCEPT !.isOpen = FALSE]
     ELSE IF ~IsText(D.root, r.sn) THEN menu
     ELSE LET blockText == SubSeq(FindNode(D.root, r.sn).text, 1, r.so)
          IN IF CommandMatch(blockText)
             THEN [isOpen |-> TRUE, query |-> Tail(blockText)]
             ELSE [menu EXCEPT !.isOpen = FALSE]

handleInput(D, s, menu) ==
  LET r == IF s = 0 THEN NoRange ELSE D.rs[s]
  IN IF r = NoRange \/ ~IsCollapsed(r) \/ r.sn \notin Ids(D.root)
     THEN [menu EXCEPT !.isOpen = FALSE]
     ELSE IF ~IsText(D.root, r.sn) THEN [menu EXCEPT !.isOpen = FALSE]
     ELSE LET blockText == SubSeq(FindNode(D.root, r.sn).text, 1, r.so)
          IN IF CommandMatch(blockText)
             THEN [isOpen |-> TRUE, query |-> Tail(blockText)]
             ELSE [menu EXCEPT !.isOpen = FALSE]

(* ----------------------------- handleSelection ------------------------- *)
(* the places the mouse can put the selection.  A click: a caret in a Text *)
(* node or in an element without text.  A double click: the whole of one   *)
(* Text node.                                                              *)
Editable(root) ==
  LET Outside(ns, inTable) == {n \in ns : n.id \notin inTable}
      Of(ns) == Outside(ns, UNION {Ids(n) : n \in {m \in ns : m.type = "table"}})
  IN Of({n \in Nodes(root) : n.id # root.id})

Carets(root) ==
  LET texts == {n \in Editable(root) : n.type = "#text"}
      holders == {n \in Editable(root) :
                    /\ n.type \in {"p", "h1", "h2", "h3", "blockquote", "li", "code"}
                    /\ \A i \in 1..Len(n.kids) : n.kids[i].type = "br"}
  IN UNION {{Caret(n.id, o) : o \in 0..Len(n.text)} : n \in texts}
     \cup {Caret(n.id, 0) : n \in holders}
     \cup (IF root.kids = <<>> THEN {Caret(root.id, 0)} ELSE {})

Stretches(root) ==
  {[sn |-> n.id, so |-> 0, en |-> n.id, eo |-> Len(n.text)] :
     n \in {m \in Editable(root) : m.type = "#text" /\ m.text # <<>>}}

Clickable(root) == Carets(root) \cup Stretches(root)

NoOverlay == ~isAssistantOpen /\ ~isTableModalOpen

MouseSelect(r) ==
  /\ UNCHANGED <<sttVars, appVars, vizVars, edits>>
  /\ NoOverlay
  /\ r \in Clickable(Root)
  /\ r.so <= r.eo
  /\ LET D == NewRange(D0, r)
         text == RangeText(D.root, r)
     IN IF slashMenuState.isOpen
        THEN /\ SetDom(D, Last(D), savedRange, aiReqs)
             /\ UNCHANGED <<selectedText, aiTriggerMode, assistantPosition>>
        ELSE IF Trim(text) # <<>>
        THEN LET D1 == NewRange(D, r)
             IN /\ SetDom(D1, Last(D), Last(D1), aiReqs)
                /\ selectedText' = text
                /\ aiTriggerMode' = "selection"
                /\ assistantPosition' = TRUE
        ELSE /\ SetDom(D, Last(D), savedRange, aiReqs)
             /\ selectedText' = <<>>
             /\ assistantPosition' = FALSE
             /\ UNCHANGED aiTriggerMode
  /\ lastOp' = Op("handleSelection")
  /\ UNCHANGED <<slashMenuState, selectedIndex, isAssistantOpen, isTableModalOpen, modal, assistant, note>>

(* the blur event of the editor: onBlur={handleBlur} *)
Blur ==
  /\ UNCHANGED <<sttVars, appVars, vizVars, edits>>
  /\ NoOverlay
  /\ note' = handleBlur(Root, note.content)
  /\ lastOp' = [Op("handleBlur") EXCEPT !.wrote = BlurWrites(Root, note.content)]
  /\ UNCHANGED <<domVars, uiVars>>

(* an overlay (assistant, table modal) opens and focuses its input: the   *)
(* editor gets a blur event, and the selection leaves the editor          *)
OverlayOpens(D, sv, name) ==
  /\ SetDom(D, 0, sv, aiReqs)
  /\ note' = handleBlur(D.root, note.content)
  /\ slashMenuState' = [slashMenuState EXCEPT !.isOpen = FALSE]
  /\ selectedIndex' = 0
  /\ IF name = "askAI"
     THEN /\ aiTriggerMode' = "empty-line"
          /\ isAssistantOpen' = TRUE
          /\ assistant' = [isLoading |-> FALSE, error |-> FALSE]
          /\ UNCHANGED <<isTableModalOpen, modal>>
     ELSE /\ isTableModalOpen' = TRUE
          /\ modal' = [rows |-> 3, cols |-> 3]
          /\ UNCHANGED <<aiTriggerMode, isAssistantOpen, assistant>>
  /\ UNCHANGED <<selectedText, assistantPosition>>

(* ------------------------- handleKeyDown + typing ---------------------- *)
(* the space key on an empty line opens the assistant instead of typing *)
SpaceOpensAssistant(root, r) ==
  /\ IsCollapsed(r)
  /\ LET currentElement == IF IsText(root, r.sn) THEN ParentOf(root, r.sn)
                           ELSE FindNode(root, r.sn)
     IN Trim(textContent(currentElement)) = <<>> /\ Len(currentElement.kids) <= 1

(* the browser's default action for a character key: the selected content *)
(* is deleted and the character inserted at the caret                     *)
TypeInto(D, s, c) ==
  LET OnlyBr(el) == el.kids # <<>> /\ \A i \in 1..Len(el.kids) : el.kids[i].type = "br"
      Put(D2, el) ==
        SetRange(DomInsert(D2, el.id, D2.rs[s].so, <<TextNode(Fresh(1), <<c>>)>>),
                 s, Caret(Fresh(1), 1))
      InElement(D1, el) == Put(IF OnlyBr(el) THEN DomClear(D1, el.id) ELSE D1, el)
      At(D1, r) ==
        IF IsText(D1.root, r.sn)
        THEN SetRange(DomReplaceData(D1, r.sn, r.so, 0, <<c>>), s, Caret(r.sn, r.so + 1))
        ELSE InElement(D1, FindNode(D1.root, r.sn))
      Typed(D1) == At(D1, D1.rs[s])
  IN Typed(DeleteContents(D, s))

KeyPress(c) ==
  /\ UNCHANGED <<sttVars, appVars, vizVars>>
  /\ NoOverlay
  /\ sel # 0
  /\ LET r == ranges[sel]
     IN IF ~slashMenuState.isOpen /\ c = " " /\ SpaceOpensAssistant(Root, r)
        THEN \* handleKeyDown: event.preventDefault(), the assistant opens and
             \* takes the focus, so the editor gets a blur event
             LET D == NewRange(D0, r)
             IN /\ OverlayOpens(D, Last(D), "askAI")
                /\ lastOp' = Op("handleKeyDown")
                /\ UNCHANGED edits
        ELSE \E D \in {TypeInto(D0, sel, c)} :
                /\ Edit
                /\ SetDom(D, sel, savedRange, aiReqs)
                /\ slashMenuState' = handleInput(D, sel, slashMenuState)
                /\ selectedIndex' = MenuIndex(handleInput(D, sel, slashMenuState))
                /\ lastOp' = Op("handleInput")
                /\ UNCHANGED <<isAssistantOpen, aiTriggerMode, selectedText,
                               assistantPosition, isTableModalOpen, modal, assistant, note>>

CommandName(command) == IF command.tag # "" THEN command.tag ELSE command.action

BlockCommands ==
  {"h1", "h2", "h3", "blockquote", "bulletedList", "numberedList", "todoList", "codeBlock"}

(* --------------------------- handleCommandSelect ----------------------- *)
(* the trigger removal: the block is cleared when its trimmed text starts  *)
(* with "/" + query                                                        *)
RemovesTrigger(root, currentBlock, query) ==
  /\ currentBlock # NoBlock
  /\ StartsWith(Trim(textContent(FindNode(root, currentBlock))), <<"/">> \o query)

RemoveTrigger(D, currentBlock, query) ==
  IF RemovesTrigger(D.root, currentBlock, query) THEN DomClear(D, currentBlock) ELSE D

IsBlockEmpty(root, currentBlock) ==
  currentBlock = NoBlock \/ Trim(textContent(FindNode(root, currentBlock))) = <<>>

(* the element a block-creating command builds, with placeholder ids *)
NewElement(name) ==
  CASE name \in {"h1", "h2", "h3", "blockquote"} -> Element(0, name, <<Br>>)
    [] name = "bulletedList" -> Element(0, "ul", <<Element(0, "li", <<Br>>)>>)
    [] name = "numberedList" -> Element(0, "ol", <<Element(0, "li", <<Br>>)>>)
    [] name = "todoList" ->
         [Element(0, "ul",
                  <<[Element(0, "li", <<Element(0, "input", <<>>), TextNode(0, <<NBSP>>)>>)
                     EXCEPT !.cls = "todo-list-item"]>>)
          EXCEPT !.cls = "todo-list"]
    [] name = "codeBlock" -> Element(0, "pre", <<Element(0, "code", <<Br>>)>>)

(* elementToFocus of a built element whose ids start at base *)
ElementToFocus(name, base) ==
  IF name \in {"h1", "h2", "h3", "blockquote"} THEN base ELSE base + 1

(* a variant that forgets to append the element when there is no block *)
InsertElementNoAppend(D, currentBlock, isBlockEmpty, newElement) ==
  IF currentBlock # NoBlock
  THEN LET at == IndexOf(D.root, currentBlock)
       IN IF isBlockEmpty
          THEN DomInsert(DomRemove(D, RootId, at), RootId, at, <<newElement>>)
          ELSE DomInsert(D, RootId, at + 1, <<newElement>>)
  ELSE D

(* a variant that puts the element before a non-empty block *)
InsertElementBefore(D, currentBlock, isBlockEmpty, newElement) ==
  IF currentBlock # NoBlock
  THEN LET at == IndexOf(D.root, currentBlock)
       IN IF isBlockEmpty
          THEN DomInsert(DomRemove(D, RootId, at), RootId, at, <<newElement>>)
          ELSE DomInsert(D, RootId, at, <<newElement>>)
  ELSE DomInsert(D, RootId, Len(D.root.kids), <<newElement>>)

(* the insertion of newElement: replaceWith, after, or appendChild *)
InsertElement(D, currentBlock, isBlockEmpty, newElement) ==
  IF currentBlock # NoBlock
  THEN LET at == IndexOf(D.root, currentBlock)
       IN IF isBlockEmpty
          THEN DomInsert(DomRemove(D, RootId, at), RootId, at, <<newElement>>)
          ELSE DomInsert(D, RootId, at + 1, <<newElement>>)
  ELSE DomInsert(D, RootId, Len(D.root.kids), <<newElement>>)

(* a variant that treats the to-do list like the other commands *)
FocusRangeStart(name, elementToFocus) == Caret(elementToFocus, 0)

(* the range the cursor is set to *)
FocusRange(name, elementToFocus) ==
  IF name = "todoList" THEN Caret(elementToFocus, 2) ELSE Caret(elementToFocus, 0)

(* Enter (or a click) on a command of the open menu *)
CommandSelect(command) ==
  /\ UNCHANGED <<sttVars, appVars, vizVars>>
  /\ slashMenuState.isOpen
  /\ NoOverlay
  /\ \E i \in 1..Len(filteredCommands(slashMenuState.query)) :
       filteredCommands(slashMenuState.query)[i] = command
  /\ sel # 0
  /\ \E currentBlock \in {getBlockContainer(Root, ranges[sel].sn)} :
     \E D1 \in {RemoveTrigger(D0, currentBlock, slashMenuState.query)} :
     \E isBlockEmpty \in {IsBlockEmpty(D1.root, currentBlock)} :
       LET name == CommandName(command)
           blockIndex == IF currentBlock = NoBlock THEN 0
                         ELSE IndexOf(Root, currentBlock) + 1
           op == [Op("handleCommandSelect") EXCEPT !.cmd = name, !.block = blockIndex,
                                                   !.empty = isBlockEmpty]
       IN IF name \in {"askAI", "table"}
          THEN \E D2 \in {NewRange(D1, D1.rs[sel])} :
                  /\ OverlayOpens(D2, Last(D2), name)
                  /\ lastOp' = op
                  /\ UNCHANGED edits
          ELSE \E D3 \in {NewRange(InsertElement(D1, currentBlock, isBlockEmpty,
                                                 Renumber(NewElement(name), Fresh(10))),
                                   FocusRange(name, ElementToFocus(name, Fresh(10))))} :
                  /\ Edit
                  /\ SetDom(D3, Last(D3), savedRange, aiReqs)
                  \* the input event dispatched at the end runs handleInput
                  /\ slashMenuState' = handleInput(D3, Last(D3), slashMenuState)
                  /\ selectedIndex' = 0
                  /\ lastOp' = op
                  /\ UNCHANGED <<isAssistantOpen, aiTriggerMode, selectedText,
                                 assistantPosition, isTableModalOpen, modal, assistant, note>>

(* a variant that stops at the ends of the list *)
ArrowKeyStops(key, prev, n) ==
  IF key = "ArrowDown" THEN (IF prev < n - 1 THEN prev + 1 ELSE prev)
  ELSE (IF prev > 0 THEN prev - 1 ELSE prev)

(* ArrowDown and ArrowUp in the keydown handler of the menu, on the index  *)
(* prev of a filtered list of n commands                                   *)
ArrowKey(key, prev, n) ==
  IF key = "ArrowDown" THEN (IF prev < n - 1 THEN prev + 1 ELSE 0)
  ELSE (IF prev > 0 THEN prev - 1 ELSE n - 1)

MenuArrow(key) ==
  /\ UNCHANGED <<sttVars, appVars, vizVars, edits>>
  /\ slashMenuState.isOpen
  /\ NoOverlay
  /\ selectedIndex' = ArrowKey(key, selectedIndex,
                               Len(filteredCommands(slashMenuState.query)))
  /\ lastOp' = [Op("menuKey") EXCEPT !.cmd = key, !.n = selectedIndex]
  /\ UNCHANGED <<domVars, slashMenuState, isAssistantOpen, aiTriggerMode, selectedText,
                 assistantPosition, isTableModalOpen, modal, assistant, note>>

(* the command Enter commits: filteredCommands[selectedIndex], which is    *)
(* undefined when the index is not one of the list                         *)
HasSelected(list, index) == index >= 0 /\ index < Len(list)

(* a variant in which Enter closes the menu when it has nothing to commit *)
MenuEnterCloses ==
  /\ slashMenuState.isOpen
  /\ NoOverlay
  /\ IF HasSelected(filteredCommands(slashMenuState.query), selectedIndex)
     THEN CommandSelect(filteredCommands(slashMenuState.query)[selectedIndex + 1])
     ELSE /\ lastOp' = [Op("menuKey") EXCEPT !.cmd = "Enter", !.n = selectedIndex]
          /\ slashMenuState' = [slashMenuState EXCEPT !.isOpen = FALSE]
          /\ selectedIndex' = 0
          /\ UNCHANGED <<sttVars, appVars, vizVars, edits, domVars, isAssistantOpen,
                         aiTriggerMode, selectedText, assistantPosition,
                         isTableModalOpen, modal, assistant, note>>

(* Enter in the open menu: onSelect of the selected command, if there is one *)
MenuEnter ==
  /\ slashMenuState.isOpen
  /\ NoOverlay
  /\ IF HasSelected(filteredCommands(slashMenuState.query), selectedIndex)
     THEN CommandSelect(filteredCommands(slashMenuState.query)[selectedIndex + 1])
     ELSE /\ lastOp' = [Op("menuKey") EXCEPT !.cmd = "Enter", !.n = selectedIndex]
          /\ UNCHANGED <<sttVars, appVars, vizVars, edits, domVars, uiVars, note>>

(* the queries the Editor passes to the menu *)
MenuLetters == {"a", "T", "l", "x"}
MenuQueries ==
  {<<>>} \cup {<<c>> : c \in MenuLetters} \cup {<<c, d>> : c \in MenuLetters, d \in MenuLetters}

(* the Editor renders the menu with query q: the menu is mounted, or its  *)
(* query prop changes                                                     *)
MenuRenders(q) ==
  /\ UNCHANGED <<sttVars, appVars, vizVars, edits>>
  /\ NoOverlay
  /\ slashMenuState' = [isOpen |-> TRUE, query |-> q]
  /\ selectedIndex' = MenuIndex([isOpen |-> TRUE, query |-> q])
  /\ lastOp' = [Op("menuRenders") EXCEPT !.empty = slashMenuState.isOpen,
                                         !.n = selectedIndex,
                                         !.k = Len(filteredCommands(slashMenuState.query))]
  /\ UNCHANGED <<domVars, isAssistantOpen, aiTriggerMode, selectedText,
                 assistantPosition, isTableModalOpen, modal, assistant, note>>

(* Escape in the open menu: onClose *)
MenuEscape ==
  /\ UNCHANGED <<sttVars, appVars, vizVars, edits>>
  /\ slashMenuState.isOpen
  /\ NoOverlay
  /\ slashMenuState' = [slashMenuState EXCEPT !.isOpen = FALSE]
  /\ selectedIndex' = 0
  /\ lastOp' = Op("onClose")
  /\ UNCHANGED <<domVars, isAssistantOpen, aiTriggerMode, selectedText,
                 assistantPosition, isTableModalOpen, modal, assistant, note>>

(* --------------------------- TableGeneratorModal ----------------------- *)
(* what the user types into a number field, as parseInt reads it *)
Parsed(n) == [isNaN |-> FALSE, n |-> n]
NotANumber == [isNaN |-> TRUE, n |-> 0]
ModalInputs == {NotANumber} \cup {Parsed(n) : n \in -1..2}

Max(a, b) == IF a >= b THEN a ELSE b
Min(a, b) == IF a <= b THEN a ELSE b

(* a variant without Math.max *)
InputValueUnclamped(p) == IF p.isNaN \/ p.n = 0 THEN 1 ELSE p.n

(* Math.max(1, parseInt(e.target.value, 10) || 1) *)
InputValue(p) == Max(1, IF p.isNaN \/ p.n = 0 THEN 1 ELSE p.n)

ModalSetRows(p) ==
  /\ UNCHANGED <<sttVars, appVars, vizVars, edits>>
  /\ isTableModalOpen
  /\ modal' = [modal EXCEPT !.rows = InputValue(p)]
  /\ lastOp' = [Op("setRows") EXCEPT !.n = p.n, !.empty = p.isNaN]
  /\ UNCHANGED <<domVars, slashMenuState, selectedIndex, isAssistantOpen, aiTriggerMode, selectedText,
                 assistantPosition, isTableModalOpen, assistant, note>>

ModalSetCols(p) ==
  /\ UNCHANGED <<sttVars, appVars, vizVars, edits>>
  /\ isTableModalOpen
  /\ modal' = [modal EXCEPT !.cols = InputValue(p)]
  /\ lastOp' = [Op("setCols") EXCEPT !.n = p.n, !.empty = p.isNaN]
  /\ UNCHANGED <<domVars, slashMenuState, selectedIndex, isAssistantOpen, aiTriggerMode, selectedText,
                 assistantPosition, isTableModalOpen, assistant, note>>

(* Cancel, Escape or a click on the backdrop *)
ModalClose ==
  /\ UNCHANGED <<sttVars, appVars, vizVars, edits>>
  /\ isTableModalOpen
  /\ isTableModalOpen' = FALSE
  /\ SetDom(D0, sel, 0, aiReqs)
  /\ lastOp' = Op("closeTableModal")
  /\ UNCHANGED <<slashMenuState, selectedIndex, isAssistantOpen, aiTriggerMode, selectedText,
                 assistantPosition, modal, assistant, note>>

(* ----------------------------- handleCreateTable ----------------------- *)
Digit(i) == CASE i = 1 -> "1" [] i = 2 -> "2" [] i = 3 -> "3" [] i = 4 -> "4"
              [] OTHER -> "9"

HeaderLabel(i) == <<"H", "e", "a", "d", "e", "r", " ", Digit(i)>>

(* a variant that takes the number of rows for the width of the body *)
NewTableSquare(rows, cols) ==
  Element(0, "table",
    << Element(0, "thead",
         <<Element(0, "tr", [i \in 1..cols |->
                               Element(0, "th", <<TextNode(0, HeaderLabel(i))>>)])>>),
       Element(0, "tbody",
         [i \in 1..rows |-> Element(0, "tr", [j \in 1..rows |->
                                               Element(0, "td", <<Br>>)])]) >>)

(* the table element: thead with one row of th, tbody with rows of td *)
NewTable(rows, cols) ==
  Element(0, "table",
    << Element(0, "thead",
         <<Element(0, "tr", [i \in 1..cols |->
                               Element(0, "th", <<TextNode(0, HeaderLabel(i))>>)])>>),
       Element(0, "tbody",
         [i \in 1..rows |-> Element(0, "tr", [j \in 1..cols |->
                                               Element(0, "td", <<Br>>)])]) >>)

(* the fragment: the table and an empty paragraph *)
TableFragment(rows, cols) ==
  RenumberAll(<<NewTable(rows, cols), Element(0, "p", <<Br>>)>>, Fresh(10))

(* replaceWith(fragment), after(fragment) or range.insertNode(fragment) *)
InsertFragment(D, k, currentBlock, fragment) ==
  IF currentBlock # NoBlock
  THEN LET at == IndexOf(D.root, currentBlock)
       IN IF Trim(textContent(FindNode(D.root, currentBlock))) = <<>>
          THEN DomInsert(DomRemove(D, RootId, at), RootId, at, fragment)
          ELSE DomInsert(D, RootId, at + 1, fragment)
  ELSE InsertNode(D, k, fragment, Fresh(1))

handleCreateTable(rows, cols) ==
  \* editor.focus() puts a caret into the editor if the selection is elsewhere
  \E Df \in {IF savedRange = 0 /\ sel = 0 THEN NewRange(D0, Caret(RootId, 0)) ELSE D0} :
  \E k \in {IF savedRange # 0 THEN savedRange ELSE IF sel # 0 THEN sel ELSE Last(Df)} :
  \E currentBlock \in {getBlockContainer(Df.root, Df.rs[k].sn)} :
  \E fragment \in {TableFragment(rows, cols)} :
  \E D2 \in {SetRange(InsertFragment(Df, k, currentBlock, fragment), k,
                      Caret(fragment[2].id, 0))} :
     /\ Edit
     /\ isTableModalOpen' = FALSE
     /\ SetDom(D2, k, 0, aiReqs)
     /\ note' = handleBlur(D2.root, note.content)
     /\ lastOp' = [Op("handleCreateTable") EXCEPT
                     !.n = rows, !.m = cols, !.prev = lastOp.name, !.k = lastOp.n,
                     !.block = IF currentBlock = NoBlock THEN 0
                               ELSE IndexOf(Df.root, currentBlock) + 1,
                     !.empty = currentBlock # NoBlock
                               /\ Trim(textContent(FindNode(Df.root, currentBlock))) = <<>>,
                     !.wrote = BlurWrites(D2.root, note.content)]
     /\ UNCHANGED <<slashMenuState, selectedIndex, isAssistantOpen, aiTriggerMode, selectedText,
                    assistantPosition, modal, assistant>>

(* the Create button: TableGeneratorModal.handleSubmit *)
ModalSubmit ==
  /\ UNCHANGED <<sttVars, appVars, vizVars>>
  /\ isTableModalOpen
  /\ IF modal.rows > 0 /\ modal.cols > 0
     THEN handleCreateTable(modal.rows, modal.cols)
     ELSE /\ lastOp' = Op("handleSubmit")
          /\ UNCHANGED <<domVars, uiVars, note, edits>>

(* ------------------------------ AIAssistant ---------------------------- *)
(* the "Ask AI" button over a selection.  The button lies inside the div   *)
(* whose onMouseUp is handleSelection, so the click runs handleSelection   *)
(* first; if that hides the button, nothing opens.                         *)
AskAiButton ==
  /\ UNCHANGED <<sttVars, appVars, vizVars, edits>>
  /\ assistantPosition /\ selectedText # <<>> /\ ~isAssistantOpen
  /\ ~isTableModalOpen
  /\ LET text == IF sel = 0 THEN <<>> ELSE RangeText(Root, ranges[sel])
         opens == /\ isAssistantOpen' = TRUE
                  /\ assistant' = [isLoading |-> FALSE, error |-> FALSE]
                  /\ note' = handleBlur(Root, note.content)
                  /\ lastOp' = Op("openAssistant")
     IN IF slashMenuState.isOpen
        THEN /\ opens
             /\ SetDom(D0, 0, savedRange, aiReqs)
             /\ UNCHANGED <<selectedText, aiTriggerMode, assistantPosition>>
        ELSE IF Trim(text) # <<>>
        THEN LET D == NewRange(D0, ranges[sel])
             IN /\ opens
                /\ SetDom(D, 0, Last(D), aiReqs)
                /\ selectedText' = text
                /\ aiTriggerMode' = "selection"
                /\ assistantPosition' = TRUE
        ELSE /\ selectedText' = <<>>
             /\ assistantPosition' = FALSE
             /\ lastOp' = Op("handleSelection")
             /\ UNCHANGED <<domVars, isAssistantOpen, assistant, aiTriggerMode, note>>
  /\ UNCHANGED <<slashMenuState, selectedIndex, isTableModalOpen, modal>>

(* Escape or a click on the backdrop: onClose *)
AssistantClose ==
  /\ UNCHANGED <<sttVars, appVars, vizVars, edits>>
  /\ isAssistantOpen
  /\ isAssistantOpen' = FALSE
  /\ SetDom(D0, sel, 0, aiReqs)
  /\ lastOp' = Op("closeAssistant")
  /\ UNCHANGED <<slashMenuState, selectedIndex, aiTriggerMode, selectedText, assistantPosition,
                 isTableModalOpen, modal, assistant, note>>

(* AIAssistant.handleAction calls handleAiRequest, which closes the       *)
(* assistant and waits for the service.  The call keeps the savedRange    *)
(* and the activeNote.content of the render it was made in.               *)
AssistantSubmit ==
  /\ UNCHANGED <<sttVars, appVars, vizVars, edits>>
  /\ isAssistantOpen
  /\ ~assistant.isLoading
  /\ Len(aiReqs) < MaxPending
  /\ assistant' = [isLoading |-> TRUE, error |-> FALSE]
  /\ isAssistantOpen' = FALSE
  /\ SetDom(D0, sel, savedRange,
            Append(aiReqs, [savedRange |-> savedRange, content |-> note.content]))
  /\ lastOp' = Op("handleAiRequest")
  /\ UNCHANGED <<slashMenuState, selectedIndex, aiTriggerMode, selectedText, assistantPosition,
                 isTableModalOpen, modal, note>>

(* ----------------------------- handleAiRequest ------------------------- *)
(* texts the service answers with *)
AiResults == {<<"a">>}

(* marked.parse of a plain text: one paragraph *)
MarkedText(result) ==
  IF Trim(result) = <<>> THEN <<>>
  ELSE <<Element(0, "p", <<TextNode(0, Trim(result))>>)>>

(* editor.innerHTML += "<br>" + html: every child is parsed anew *)
AppendHtml(D, html) ==
  LET kids == RenumberAll(ReparseKids(D.root.kids \o <<Br>> \o html), Fresh(20))
      Adj(n, o) == IF n \in Ids(D.root) THEN [n |-> RootId, o |-> 0]
                   ELSE [n |-> n, o |-> o]
  IN Dom(EditorRoot(kids), MapRanges(D.rs, Adj))

(* a variant that keeps the selected contents *)
ApplyResultKeep(D, saved, result) ==
  IF saved # 0
  THEN InsertNode(D, saved, <<TextNode(Fresh(10), result)>>, Fresh(1))
  ELSE AppendHtml(D, MarkedText(result))

(* the result is applied: at the saved range, or at the end of the editor *)
ApplyResult(D, saved, result) ==
  IF saved # 0
  THEN InsertNode(DeleteContents(D, saved), saved, <<TextNode(Fresh(10), result)>>, Fresh(1))
  ELSE AppendHtml(D, MarkedText(result))

(* handleAiRequest wraps the call in try/catch/finally: its catch logs the *)
(* error and does not throw again, so the promise it returns to the       *)
(* assistant is fulfilled whatever the service did                        *)
handleAiRequestSettles(service) ==
  IF service = "rejected" THEN "fulfilled" ELSE "fulfilled"

(* AIAssistant.handleAction after "await onSubmit(...)": its catch sets    *)
(* the error and ends loading, and runs only when the promise is rejected  *)
handleAction(a, outcome) ==
  IF outcome = "rejected" THEN [isLoading |-> FALSE, error |-> TRUE] ELSE a

Others(i) == SeqRemove(aiReqs, i)

(* the service resolves the i-th pending call *)
AiResolve(i, result) ==
  /\ UNCHANGED <<sttVars, appVars, vizVars>>
  /\ Edit
  /\ i \in 1..Len(aiReqs)
  /\ \E req \in {aiReqs[i]} :
     \E D \in {ApplyResult(D0, req.savedRange, result)} :
     \E s \in {IF req.savedRange # 0 THEN req.savedRange ELSE sel} :
        /\ SetDom(D, s, 0, Others(i))
        /\ note' = handleBlur(D.root, req.content)
        /\ lastOp' = [Op("aiResolved") EXCEPT !.n = i,
                                              !.wrote = BlurWrites(D.root, req.content),
                                              !.empty = (req.savedRange # 0),
                                              !.text = result]
  /\ selectedText' = <<>>
  /\ assistantPosition' = FALSE
  /\ assistant' = handleAction(assistant, handleAiRequestSettles("fulfilled"))
  /\ UNCHANGED <<slashMenuState, selectedIndex, isAssistantOpen, aiTriggerMode, isTableModalOpen, modal>>

(* a variant whose failure path serializes and saves like the success path *)
AiRejectSaves(i) ==
  /\ UNCHANGED <<sttVars, appVars, vizVars, edits>>
  /\ i \in 1..Len(aiReqs)
  /\ SetDom(D0, sel, 0, Others(i))
  /\ note' = handleBlur(Root, aiReqs[i].content)
  /\ selectedText' = <<>>
  /\ assistantPosition' = FALSE
  /\ assistant' = handleAction(assistant, handleAiRequestSettles("rejected"))
  /\ lastOp' = Op("aiRejected")
  /\ UNCHANGED <<slashMenuState, selectedIndex, isAssistantOpen, aiTriggerMode, isTableModalOpen, modal>>

(* the service rejects the i-th pending call: catch logs, finally resets *)
AiReject(i) ==
  /\ UNCHANGED <<sttVars, appVars, vizVars, edits>>
  /\ i \in 1..Len(aiReqs)
  /\ SetDom(D0, sel, 0, Others(i))
  /\ selectedText' = <<>>
  /\ assistantPosition' = FALSE
  /\ assistant' = handleAction(assistant, handleAiRequestSettles("rejected"))
  /\ lastOp' = Op("aiRejected")
  /\ UNCHANGED <<slashMenuState, selectedIndex, isAssistantOpen, aiTriggerMode, isTableModalOpen,
                 modal, note>>

(* ------------------------------- dictation ----------------------------- *)
(* words the recognition service delivers; "new paragraph" is the spoken  *)
(* command                                                                *)
Words == {<<"d">>, <<"new paragraph">>}

(* transcript.replace(/new paragraph/gi, '\n\n') *)
ProcessedText(t) == [i \in 1..Len(t) |-> IF t[i] = "new paragraph" THEN "\n\n" ELSE t[i]]

(* the effect of Editor that inserts the dictated text once listening has *)
(* stopped: at savedRange, or at the end of the editor                    *)
InsertDictated(D, saved, t) ==
  LET textNode == TextNode(Fresh(10), ProcessedText(t) \o <<" ">>)
      After(D2, p) == NewRange(D2, Caret(p.id, IndexOf(p, Fresh(10)) + 1))
      Inserted(D2) == After(D2, ParentOf(D2.root, Fresh(10)))
      At(D1, k) == Inserted(InsertNode(D1, k, <<textNode>>, Fresh(1)))
      AtEnd(D1) == At(D1, Last(D1))
  IN IF saved # 0 THEN At(D, saved)
     ELSE AtEnd(NewRange(D, Caret(RootId, Len(D.root.kids))))

(* -------------------------- useSpeechRecognition ----------------------- *)
MAX_RETRIES == 3

(* the state of the hook as one record *)
Hook == [isListening |-> isListening, transcript |-> transcript, error |-> sttError,
         intentional |-> listeningIntentionally, retryCount |-> retryCount,
         timer |-> retryTimeout, engine |-> recognition]

(* history of the session that start() began: the range that              *)
(* toggleDictation saved then (NoRange if none), the number of edits      *)
(* then, the 'network' errors in a row and the results so far, all of     *)
(* them until the session stops listening, and the insertions of its      *)
(* transcript                                                             *)
NoDictation == [saved |-> NoRange, at |-> 0, inserted |-> 0, errs |-> 0, results |-> 0]

(* recognition.stop(): an active recognition stops, anything else stays *)
EngineStop(e) == IF e = "active" THEN "stopping" ELSE e

(* a variant that leaves the retry timer running *)
stopListeningKeepsTimer(h, finalError) ==
  [h EXCEPT !.intentional = FALSE,
            !.engine = EngineStop(@),
            !.isListening = FALSE,
            !.error = IF finalError # "" THEN finalError ELSE @]

stopListening(h, finalError) ==
  [h EXCEPT !.intentional = FALSE,
            !.timer = 0,
            !.engine = EngineStop(@),
            !.isListening = FALSE,
            !.error = IF finalError # "" THEN finalError ELSE @]

(* recognition.start() throws unless the recognition is idle *)
startRecognition(h) ==
  IF ~h.intentional THEN h
  ELSE IF h.engine = "idle" THEN [h EXCEPT !.engine = "active"]
  ELSE stopListening(h, "Speech recognition service failed to restart.")

(* a variant that keeps the retry counter *)
onresultKeepsCount(h, w) ==
  [h EXCEPT !.error = "",
            !.transcript = (IF @ # <<>> THEN @ \o <<" ">> ELSE <<>>) \o w]

onresult(h, w) ==
  [h EXCEPT !.retryCount = 0,
            !.error = "",
            !.transcript = (IF @ # <<>> THEN @ \o <<" ">> ELSE <<>>) \o w]

(* Math.pow(2, retryCount - 1) * 1000 *)
RetryDelay(n) == (2 ^ (n - 1)) * 1000

ErrorKinds == {"network", "no-speech", "not-allowed", "service-not-allowed", "aborted",
               "audio-capture"}

(* a variant that takes a refused microphone for an unknown error *)
ErrorMessageUnknown(kind, intentional) ==
  CASE kind = "no-speech" -> "No speech was detected. Please try again."
    [] kind = "aborted" /\ intentional -> "Dictation was unexpectedly interrupted."
    [] OTHER -> "An unknown error occurred."

(* the switch of onerror *)
ErrorMessage(kind, intentional) ==
  CASE kind = "no-speech" -> "No speech was detected. Please try again."
    [] kind \in {"not-allowed", "service-not-allowed"} ->
         "Microphone access denied. Please allow it in browser settings."
    [] kind = "aborted" /\ intentional -> "Dictation was unexpectedly interrupted."
    [] OTHER -> "An unknown error occurred."

onerror(h, kind) ==
  IF kind = "network" /\ h.intentional
  THEN IF h.retryCount < MAX_RETRIES
       THEN [h EXCEPT !.retryCount = @ + 1,
                      !.error = "Connection unstable. Retrying...",
                      !.timer = RetryDelay(h.retryCount + 1)]
       ELSE stopListening(h, "Network error. Please check your connection and try again.")
  ELSE IF kind = "aborted" /\ ~h.intentional THEN h
  ELSE stopListening(h, ErrorMessage(kind, h.intentional))

(* a variant that takes every end for the end of the session *)
onendAlways(h) == [h EXCEPT !.isListening = FALSE]

onend(h) == IF ~h.intentional THEN [h EXCEPT !.isListening = FALSE] ELSE h

(* start() of the hook; recognition.start() throws unless it is idle *)
start(h) ==
  IF h.isListening THEN h
  ELSE IF h.engine = "idle"
  THEN [h EXCEPT !.intentional = TRUE, !.error = "", !.transcript = <<>>,
                 !.isListening = TRUE, !.engine = "active"]
  ELSE stopListening([h EXCEPT !.error = "", !.transcript = <<>>],
                     "Could not start speech recognition.")

(* a handler has left the hook in state h, the DOM as D and savedRange as  *)
(* sv.  React renders, and the dictation effect of Editor runs if          *)
(* isListening or transcript changed: it inserts the transcript when the   *)
(* hook is not listening and the transcript is not empty.                  *)
EffectInserts(h) ==
  /\ h.isListening # isListening \/ h.transcript # transcript
  /\ ~h.isListening
  /\ h.transcript # <<>>

Rendered(h, D, s, sv, op, g) ==
  /\ isListening' = h.isListening
  /\ transcript' = h.transcript
  /\ sttError' = h.error
  /\ listeningIntentionally' = h.intentional
  /\ retryCount' = h.retryCount
  /\ retryTimeout' = h.timer
  /\ recognition' = h.engine
  /\ UNCHANGED <<appVars, vizVars>>
  /\ IF EffectInserts(h)
     THEN \E D2 \in {InsertDictated(D, sv, h.transcript)} :
            /\ Edit
            /\ SetDom(D2, Last(D2), 0, aiReqs)
            /\ note' = handleBlur(D2.root, note.content)
            /\ lastOp' = [op EXCEPT !.m = 1, !.text = h.transcript,
                                    !.empty = (sv # 0),
                                    !.wrote = BlurWrites(D2.root, note.content)]
            /\ dictation' = [NoDictation EXCEPT !.inserted = g.inserted + 1]
     ELSE /\ SetDom(D, s, sv, aiReqs)
          /\ lastOp' = op
          /\ dictation' = IF h.isListening THEN g
                          ELSE [NoDictation EXCEPT !.inserted = g.inserted]
          /\ UNCHANGED <<note, edits>>
  /\ UNCHANGED uiVars

(* the microphone button: toggleDictation *)
ToggleDictation ==
  /\ NoOverlay
  /\ IF isListening
     THEN Rendered(stopListening(Hook, ""), D0, sel, savedRange,
                   [Op("stopStt") EXCEPT !.k = retryTimeout], dictation)
     ELSE \* the selection is saved and startStt() begins a session
          \E D \in {IF sel # 0 THEN NewRange(D0, ranges[sel]) ELSE D0} :
            Rendered(start(Hook), D, sel, IF sel # 0 THEN Last(D) ELSE savedRange,
                     Op("startStt"),
                     [NoDictation EXCEPT !.saved = RangeOf(sel), !.at = edits])

(* recognition.onresult: the recognition delivers a final result; after   *)
(* stop() it may deliver one more, made of the audio captured so far      *)
RecResult(w) ==
  /\ recognition \in {"active", "stopping"}
  /\ Len(transcript) < MaxTranscript
  /\ Rendered([onresult(Hook, w) EXCEPT !.engine = IF @ = "stopping" THEN "ending" ELSE @],
              D0, sel, savedRange,
              [Op("onresult") EXCEPT !.n = retryCount],
              [dictation EXCEPT !.errs = 0, !.results = @ + 1])

(* recognition.onerror: the recognition fails and will end *)
RecError(kind) ==
  /\ recognition \in {"active", "stopping"}
  /\ Rendered(onerror([Hook EXCEPT !.engine = "ending"], kind), D0, sel, savedRange,
              [Op("onerror") EXCEPT !.cmd = kind, !.empty = listeningIntentionally,
                                    !.n = retryCount, !.prev = lastOp.name,
                                    !.k = lastOp.n],
              [dictation EXCEPT !.errs = IF kind = "network" /\ listeningIntentionally
                                         THEN @ + 1 ELSE @])

(* recognition.onend: after stop(), after an error, or when the browser   *)
(* ends the recognition by itself                                         *)
RecEnd ==
  /\ recognition # "idle"
  /\ Rendered(onend([Hook EXCEPT !.engine = "idle"]), D0, sel, savedRange,
              Op("onend"), dictation)

(* the retry timer fires: startRecognition *)
RetryTimer ==
  /\ retryTimeout # 0
  /\ Rendered(startRecognition([Hook EXCEPT !.timer = 0]), D0, sel, savedRange,
              [Op("startRecognition") EXCEPT !.k = retryTimeout], dictation)

(* ------------------------- App and its modals -------------------------- *)
(* NoteGeneratorModal as useState leaves it when it is mounted; inst       *)
(* numbers the mounts of the component, 0 before the first one             *)
NoGenerator ==
  [inst |-> 0, topic |-> <<>>, isLoading |-> FALSE, error |-> "", generationType |-> "note"]

(* ---- the mind map of types.ts: topics with an id and a label ---------- *)
MindMapNode(id, label, children) == [id |-> id, label |-> label, children |-> children]
MindMapData(centralTopic, nodes) == [centralTopic |-> centralTopic, nodes |-> nodes]

(* null: written as the map without a topic, which is not among MindMaps *)
NoMindMap == MindMapData(<<>>, <<>>)

(* a label of n characters *)
Label(n) == [i \in 1..n |-> "x"]

(* the maps generateMindMap answers with: no main topic, one with a child, *)
(* two with three children on one of them, four without children, and one *)
(* whose labels are long enough for the widest boxes                      *)
MindMaps ==
  { MindMapData(<<"t">>, <<>>),
    MindMapData(Label(16), <<MindMapNode("n1", Label(16),
                                         <<MindMapNode("c1", Label(23), <<>>)>>)>>),
    MindMapData(<<"t", "o">>, <<MindMapNode("n1", <<"a">>, <<MindMapNode("c1", <<"b">>, <<>>)>>)>>),
    MindMapData(<<"t">>,
                <<MindMapNode("n1", <<"a", "b">>,
                              <<MindMapNode("c1", <<"c">>, <<>>),
                                MindMapNode("c2", <<"d">>, <<>>),
                                MindMapNode("c3", <<"e">>, <<>>)>>),
                  MindMapNode("n2", <<"f">>, <<>>)>>),
    MindMapData(<<"t">>,
                <<MindMapNode("n1", <<"a">>, <<>>), MindMapNode("n2", <<"b">>, <<>>),
                  MindMapNode("n3", <<"c">>, <<>>), MindMapNode("n4", <<"d">>, <<>>)>>) }

(* lengths are kept in tenths of a pixel, the scale in thousandths *)
Px(n) == 10 * n

(* ------------------------- calculateLayout ----------------------------- *)
(* Numbers are fixed-point: lengths in tenths of a pixel, angles in        *)
(* ten-thousandths of a radian, sines and cosines in ten-thousandths.      *)
CENTER_X == 500
CENTER_Y == 500
MAIN_RADIUS == 300
CHILD_RADIUS == 100
iterations == 150
PI == 31416
Unit == 10000

(* a quotient rounded towards zero *)
Quot(a, b) == IF a >= 0 THEN a \div b ELSE -((-a) \div b)

(* Math.sqrt, rounded down *)
RECURSIVE SqrtFrom(_, _)
SqrtFrom(n, x) ==
  LET Step(y) == IF y >= x THEN x ELSE SqrtFrom(n, y)
  IN Step((x + n \div x) \div 2)
Sqrt(n) == IF n <= 0 THEN 0 ELSE SqrtFrom(n, Min(n, 46340))

(* Math.sin and Math.cos: the angle is brought into [-PI/2, PI/2] and the  *)
(* series is summed up to the ninth power                                  *)
SinSeries(x, x2) ==
  Quot(x * (Unit - (x2 * (Unit - (x2 * (Unit - (x2 * (Unit - x2 \div 72))
                                                   \div (42 * Unit)))
                                        \div (20 * Unit)))
                             \div (6 * Unit)), Unit)
SinFolded(a) ==
  IF a > PI \div 2 THEN SinSeries(PI - a, ((PI - a) * (PI - a)) \div Unit)
  ELSE IF a < -(PI \div 2) THEN SinSeries(-PI - a, ((-PI - a) * (-PI - a)) \div Unit)
  ELSE SinSeries(a, (a * a) \div Unit)
Sin(a) == SinFolded(((a + PI) % (2 * PI)) - PI)
Cos(a) == Sin(a + PI \div 2)

(* Math.atan2: the arc tangent of a quotient w with |w| <= tan(PI/8) as a  *)
(* series, the other quotients and the quadrants by the usual identities   *)
AtanSeries(w, w2) ==
  Quot(w * (Unit - (w2 * (Unit \div 3 - (w2 * (Unit \div 5 - (w2 * (Unit \div 7
                                                                  - (w2 * (Unit \div 9)) \div Unit))
                                                             \div Unit))
                                        \div Unit))
                   \div Unit), Unit)
AtanSmall(w) == AtanSeries(w, (w * w) \div Unit)
(* 0 <= z <= Unit *)
AtanUnit(z) ==
  IF z <= 4142 THEN AtanSmall(z)
  ELSE PI \div 4 + AtanSmall(Quot((z - Unit) * Unit, z + Unit))
(* x > 0, y >= 0 *)
AtanFirst(y, x) ==
  IF y <= x THEN AtanUnit((y * Unit) \div x)
  ELSE PI \div 2 - AtanUnit((x * Unit) \div y)
Atan2(y, x) ==
  IF x = 0 /\ y = 0 THEN 0
  ELSE IF x = 0 THEN (IF y > 0 THEN PI \div 2 ELSE -(PI \div 2))
  ELSE IF x > 0 THEN (IF y >= 0 THEN AtanFirst(y, x) ELSE -AtanFirst(-y, x))
  ELSE IF y >= 0 THEN PI - AtanFirst(y, -x)
  ELSE AtanFirst(-y, -x) - PI

estimateWidth(label, level) ==
  Px(Min(180, (IF level > 1 THEN 24 ELSE 40) + Len(label) * (IF level > 1 THEN 7 ELSE 9)))

LayoutNode(id, label, level, height, x, y, parentId) ==
  [id |-> id, label |-> label, width |-> estimateWidth(label, level), height |-> Px(height),
   x |-> x, y |-> y, level |-> level, parentId |-> parentId, isFixed |-> level = 0]

centralNode(mindMapData) ==
  LayoutNode("central", mindMapData.centralTopic, 0, 60, Px(CENTER_X), Px(CENTER_Y), "")

(* a point at the given distance and angle from (x, y) *)
Polar(x, y, radius, angle) ==
  [x |-> x + Quot(Px(radius) * Cos(angle), Unit), y |-> y + Quot(Px(radius) * Sin(angle), Unit)]

(* the angle of main topic i of n: (i / n) * 2 * Math.PI *)
MainAngleAtClock(i, n) == ((i + now) * 2 * PI) \div n
MainAngle(i, n) == (i * 2 * PI) \div n

(* child j of the m children of mainNode, seeded from the node pushed last *)
ChildNode(last, mainNode, j, m) ==
  LET At(p) == LayoutNode(mainNode.children[j + 1].id, mainNode.children[j + 1].label, 2, 40,
                          p.x, p.y, mainNode.id)
  IN At(Polar(last.x, last.y, CHILD_RADIUS,
              Atan2(last.y - Px(CENTER_Y), last.x - Px(CENTER_X)) + (2 * j - (m - 1)) * 2500))

RECURSIVE SeedChildren(_, _, _)
SeedChildren(layoutNodes, mainNode, j) ==
  IF j >= Len(mainNode.children) THEN layoutNodes
  ELSE SeedChildren(Append(layoutNodes,
                           ChildNode(layoutNodes[Len(layoutNodes)], mainNode, j,
                                     Len(mainNode.children))),
                    mainNode, j + 1)

MainNode(mainNode, i, n) ==
  LET At(p) == LayoutNode(mainNode.id, mainNode.label, 1, 50, p.x, p.y, "central")
  IN At(Polar(Px(CENTER_X), Px(CENTER_Y), MAIN_RADIUS, MainAngle(i, n)))

RECURSIVE SeedMain(_, _, _)
SeedMain(layoutNodes, mindMapData, i) ==
  IF i >= Len(mindMapData.nodes) THEN layoutNodes
  ELSE SeedMain(SeedChildren(Append(layoutNodes,
                                    MainNode(mindMapData.nodes[i + 1], i,
                                             Len(mindMapData.nodes))),
                             mindMapData.nodes[i + 1], 0),
                mindMapData, i + 1)

(* step 1 of calculateLayout *)
Seed(mindMapData) == SeedMain(<<centralNode(mindMapData)>>, mindMapData, 0)

MovedAlsoFixed(node, moveX, moveY) == [node EXCEPT !.x = @ + moveX, !.y = @ + moveY]
Moved(node, moveX, moveY) ==
  IF node.isFixed THEN node ELSE [node EXCEPT !.x = @ + moveX, !.y = @ + moveY]

(* the repulsion of the pair j < k: force = 0.8 * (minDistance - distance) *)
(* / distance, applied to dx and dy                                        *)
RepulseBy(layoutNodes, j, k, dx, dy, distance, minDistance) ==
  IF distance < minDistance
  THEN [layoutNodes EXCEPT
          ![j] = Moved(@, Quot(dx * 8 * (minDistance - distance), 10 * distance),
                       Quot(dy * 8 * (minDistance - distance), 10 * distance)),
          ![k] = Moved(@, -Quot(dx * 8 * (minDistance - distance), 10 * distance),
                       -Quot(dy * 8 * (minDistance - distance), 10 * distance))]
  ELSE layoutNodes

RepulseAt(layoutNodes, j, k, dx, dy) ==
  RepulseBy(layoutNodes, j, k, dx, dy,
            Max(Sqrt(dx * dx + dy * dy), 1),
            layoutNodes[j].width \div 2 + layoutNodes[k].width \div 2
              + Px(IF layoutNodes[j].level = 2 /\ layoutNodes[k].level = 2 THEN 15 ELSE 30))

RECURSIVE Repulsion(_, _, _)
Repulsion(layoutNodes, j, k) ==
  IF j > Len(layoutNodes) THEN layoutNodes
  ELSE IF k > Len(layoutNodes) THEN Repulsion(layoutNodes, j + 1, j + 2)
  ELSE Repulsion(RepulseAt(layoutNodes, j, k, layoutNodes[j].x - layoutNodes[k].x,
                           layoutNodes[j].y - layoutNodes[k].y),
                 j, k + 1)

(* layoutNodes.find(p => p.id === id): the index of the first, 0 if none *)
FindLayoutNode(layoutNodes, id) ==
  IF \E p \in 1..Len(layoutNodes) : layoutNodes[p].id = id
  THEN CHOOSE p \in 1..Len(layoutNodes) :
         /\ layoutNodes[p].id = id
         /\ \A q \in 1..(p - 1) : layoutNodes[q].id # id
  ELSE 0

(* the attraction of node c to its parent: force = 0.05 * (distance -      *)
(* desiredDistance) along (dx, dy) / distance                              *)
AttractBy(layoutNodes, c, dx, dy, distance, desiredDistance) ==
  IF distance > desiredDistance
  THEN [layoutNodes EXCEPT
          ![c] = Moved(@, -Quot(dx * (distance - desiredDistance), 20 * distance),
                       -Quot(dy * (distance - desiredDistance), 20 * distance))]
  ELSE layoutNodes

AttractAt(layoutNodes, c, parent) ==
  IF layoutNodes[c].parentId = "" \/ parent = 0 THEN layoutNodes
  ELSE LET To(dx, dy) ==
             AttractBy(layoutNodes, c, dx, dy, Sqrt(dx * dx + dy * dy),
                       Px(IF layoutNodes[c].level = 1 THEN MAIN_RADIUS ELSE CHILD_RADIUS))
       IN To(layoutNodes[c].x - layoutNodes[parent].x, layoutNodes[c].y - layoutNodes[parent].y)

RECURSIVE Attraction(_, _)
Attraction(layoutNodes, c) ==
  IF c > Len(layoutNodes) THEN layoutNodes
  ELSE Attraction(AttractAt(layoutNodes, c, FindLayoutNode(layoutNodes, layoutNodes[c].parentId)),
                  c + 1)

(* one pass of the relaxation loop *)
Relax(layoutNodes) == Attraction(Repulsion(layoutNodes, 1, 2), 1)

(* the pass finds a node closer to the central node than minDistance: the  *)
(* pairs of the central node come first, so the test is on the positions   *)
(* the pass starts with                                                    *)
RepelledByCentral(layoutNodes) ==
  \E k \in 2..Len(layoutNodes) :
    LET Close(dx, dy) ==
          Max(Sqrt(dx * dx + dy * dy), 1)
            < layoutNodes[1].width \div 2 + layoutNodes[k].width \div 2 + Px(30)
    IN Close(layoutNodes[1].x - layoutNodes[k].x, layoutNodes[1].y - layoutNodes[k].y)

(* VisualizationModal as useState and useRef leave it when it is mounted;  *)
(* inst numbers the mounts of the component, wheel and mouse count its     *)
(* wheel and mouse events, gesture tells that a mouse-down outside the     *)
(* nodes has had no mouse-up or mouse-leave yet                            *)
NoViz ==
  [inst |-> 0, mindMap |-> NoMindMap, isLoading |-> TRUE, error |-> "",
   transform |-> [scale |-> 1000, x |-> 0, y |-> 0], wheel |-> 0,
   isPanning |-> FALSE, panStart |-> <<0, 0>>, mouse |-> 0, gesture |-> FALSE]

(* a call of calculateLayout: its argument, layoutNodes, the loop counter, *)
(* and for comparison the number of calls so far and the earlier result    *)
NoLayout ==
  [phase |-> "idle", data |-> NoMindMap, nodes |-> <<>>, i |-> 0, calls |-> 0,
   prev |-> [data |-> NoMindMap, nodes |-> <<>>]]

UntitledNote == <<"U", "n", "t", "i", "t", "l", "e", "d", " ", "N", "o", "t", "e">>

(* a Note of types.ts; the id is the clock reading it was made at *)
Note(id, title, content, lastModified, type) ==
  [id |-> id, title |-> title, content |-> content, lastModified |-> lastModified,
   type |-> type]

(* activeNoteId null *)
NoNote == 0

(* ================================ Init ================================= *)
(* the stored content of the note that is opened *)
InitContents ==
  { <<>>,
    <<MdBlock("p", <<"a">>)>>,
    <<MdList("ul", <<"-">>, <<MdItem(<<"a">>, "none"), MdItem(<<"a">>, "none")>>),
      MdBlock("p", <<"a">>)>> }

(* the initial render effect of Editor *)
InitialRender(content) == RenumberAll(Marked(content, TRUE), 1)

(* the state after Editor is mounted on a note with one of the contents *)
Mounted(contents) ==
  /\ \E c \in contents :
       /\ note = [content |-> c, lastModified |-> 0]
       /\ doc = InitialRender(c)
       /\ notes = <<Note(1, UntitledNote, c, 0, "note")>>
  /\ ranges = <<>>
  /\ sel = 0
  /\ savedRange = 0
  /\ slashMenuState = [isOpen |-> FALSE, query |-> <<>>]
  /\ selectedIndex = 0
  /\ activeNoteId = 1
  /\ isGeneratorModalOpen = FALSE
  /\ generator = NoGenerator
  /\ genReqs = <<>>
  /\ now = 2
  /\ isVisualizationModalOpen = FALSE
  /\ viz = NoViz
  /\ vizReqs = <<>>
  /\ layout = NoLayout
  /\ isAssistantOpen = FALSE
  /\ aiTriggerMode = "selection"
  /\ selectedText = <<>>
  /\ assistantPosition = FALSE
  /\ isTableModalOpen = FALSE
  /\ modal = [rows |-> 3, cols |-> 3]
  /\ assistant = [isLoading |-> FALSE, error |-> FALSE]
  /\ aiReqs = <<>>
  /\ isListening = FALSE
  /\ transcript = <<>>
  /\ sttError = ""
  /\ listeningIntentionally = FALSE
  /\ retryCount = 0
  /\ retryTimeout = 0
  /\ recognition = "idle"
  /\ dictation = NoDictation
  /\ edits = 0
  /\ lastOp = Op("init")


(* ------------------- App.handleGenerateNote and modal ------------------ *)
(* <Editor key={activeNote.id}> mounted anew on a note: every useState of  *)
(* the component and of its speech hook starts over; requests of the old   *)
(* instance hold Ranges of a tree that is no longer shown.                 *)
EditorMounts(c, at) ==
  /\ note' = [content |-> c, lastModified |-> at]
  /\ doc' = InitialRender(c)
  /\ ranges' = <<>>
  /\ sel' = 0
  /\ savedRange' = 0
  /\ aiReqs' = <<>>
  /\ slashMenuState' = [isOpen |-> FALSE, query |-> <<>>]
  /\ selectedIndex' = 0
  /\ isAssistantOpen' = FALSE
  /\ aiTriggerMode' = "selection"
  /\ selectedText' = <<>>
  /\ assistantPosition' = FALSE
  /\ isTableModalOpen' = FALSE
  /\ modal' = [rows |-> 3, cols |-> 3]
  /\ assistant' = [isLoading |-> FALSE, error |-> FALSE]
  /\ isListening' = FALSE
  /\ transcript' = <<>>
  /\ sttError' = ""
  /\ listeningIntentionally' = FALSE
  /\ retryCount' = 0
  /\ retryTimeout' = 0
  /\ recognition' = "idle"
  /\ dictation' = NoDictation

GenerationTypes == {"note", "database", "image"}
Topics == {<<>>, <<" ">>, <<"x">>}

(* the messages the generate* services of geminiService throw *)
ServiceErrors(type) ==
  {"Error: API_KEY is not configured.",
   CASE type = "note" ->
          "An error occurred while generating the note. Please check the console for details."
     [] type = "database" ->
          "An error occurred while generating the database. Please check the console for details."
     [] OTHER -> "An error occurred while generating the image."}

(* the markdown a generate* service answers with *)
ServiceContent(type) ==
  CASE type = "note" -> <<MdBlock("p", <<"n">>)>>
    [] type = "database" -> <<MdBlock("h1", <<"d">>)>>
    [] OTHER -> <<MdBlock("p", <<"i">>)>>

(* finalContent: the sources of a note as a rule, a heading and a list *)
SourcesMarkdown(sources) ==
  IF sources = 0 THEN <<>>
  ELSE <<MdBlock("hr", <<>>), MdBlock("h2", <<"S">>),
         MdList("ul", "-", [i \in 1..sources |-> MdItem(<<"s">>, "none")])>>

(* notes.find(note => note.id === id): the index of the first, 0 if none *)
FindNote(ns, id) ==
  IF \E i \in 1..Len(ns) : ns[i].id = id
  THEN CHOOSE i \in 1..Len(ns) : ns[i].id = id /\ \A j \in 1..(i - 1) : ns[j].id # id
  ELSE 0

(* the notes App holds: notes, with what the open Editor has saved through *)
(* onUpdateNote since it was mounted (kept in note) written to the records *)
(* of the active id                                                        *)
AppNotes ==
  LET Saved(a) ==
        a # 0 /\ note # [content |-> notes[a].content, lastModified |-> notes[a].lastModified]
  IN IF Saved(FindNote(notes, activeNoteId))
     THEN [i \in 1..Len(notes) |->
             IF notes[i].id = activeNoteId
             THEN [notes[i] EXCEPT !.content = note.content,
                                   !.lastModified = note.lastModified]
             ELSE notes[i]]
     ELSE notes

(* notes.filter(note => note.id !== id) *)
FilterNotes(ns, id) == SelectSeq(ns, LAMBDA n : n.id # id)

(* [...notes].sort((a, b) => b.lastModified - a.lastModified): the sort is *)
(* stable                                                                  *)
RECURSIVE sortedNotes(_)
sortedNotes(ns) ==
  IF ns = <<>> THEN <<>>
  ELSE LET Insert(sorted, n) ==
             SelectSeq(sorted, LAMBDA m : m.lastModified >= n.lastModified)
               \o <<n>> \o SelectSeq(sorted, LAMBDA m : m.lastModified < n.lastModified)
       IN Insert(sortedNotes(SubSeq(ns, 1, Len(ns) - 1)), ns[Len(ns)])

(* App renders with the notes ns and the active id: <Editor key={id}> on   *)
(* the note notes.find gives, mounted anew unless an Editor with the same  *)
(* key is on screen; WelcomeScreen when there is no such note (written as  *)
(* an Editor on an empty note)                                             *)
Renders(ns, id) ==
  IF FindNote(ns, id) = 0 THEN EditorMounts(<<>>, 0)
  ELSE IF id = activeNoteId /\ FindNote(AppNotes, activeNoteId) # 0
  THEN /\ note' = [content |-> ns[FindNote(ns, id)].content,
                   lastModified |-> ns[FindNote(ns, id)].lastModified]
       /\ UNCHANGED <<domVars, uiVars, sttVars>>
  ELSE EditorMounts(ns[FindNote(ns, id)].content, ns[FindNote(ns, id)].lastModified)

(* the "Generate with AI" button of the sidebar: the modal is mounted *)
GenOpen ==
  /\ ~isGeneratorModalOpen
  /\ generator.inst < MaxMounts
  /\ isGeneratorModalOpen' = TRUE
  /\ generator' = [NoGenerator EXCEPT !.inst = generator.inst + 1]
  /\ lastOp' = Op("generatorOpen")
  /\ UNCHANGED <<domVars, uiVars, sttVars, vizVars, note, notes, activeNoteId, genReqs,
                 now, edits>>

(* the topic input and the type buttons, rendered while nothing is loading *)
GenSetTopic(t) ==
  /\ isGeneratorModalOpen /\ ~generator.isLoading
  /\ generator' = [generator EXCEPT !.topic = t]
  /\ lastOp' = [Op("generatorTopic") EXCEPT !.text = t]
  /\ UNCHANGED <<domVars, uiVars, sttVars, vizVars, note, notes, activeNoteId,
                 isGeneratorModalOpen, genReqs, now, edits>>

GenSetType(type) ==
  /\ isGeneratorModalOpen /\ ~generator.isLoading
  /\ generator' = [generator EXCEPT !.generationType = type]
  /\ lastOp' = [Op("generatorType") EXCEPT !.cmd = type]
  /\ UNCHANGED <<domVars, uiVars, sttVars, vizVars, note, notes, activeNoteId,
                 isGeneratorModalOpen, genReqs, now, edits>>

(* the condition under which handleSubmit goes on to call onGenerate *)
Submits(g) == Trim(g.topic) # <<>> /\ ~g.isLoading

(* NoteGeneratorModal.handleSubmit up to its await: the call is in flight  *)
(* with the notes of the render that passed onGenerate                     *)
GenSubmit ==
  /\ isGeneratorModalOpen /\ ~generator.isLoading
  /\ Len(genReqs) < MaxPending
  /\ IF Submits(generator)
     THEN /\ generator' = [generator EXCEPT !.isLoading = TRUE, !.error = ""]
          /\ genReqs' = Append(genReqs, [inst |-> generator.inst, topic |-> generator.topic,
                                         type |-> generator.generationType,
                                         notes |-> AppNotes])
          /\ lastOp' = [Op("generatorSubmit") EXCEPT !.wrote = TRUE]
     ELSE /\ UNCHANGED <<generator, genReqs>>
          /\ lastOp' = Op("generatorSubmit")
  /\ UNCHANGED <<domVars, uiVars, sttVars, vizVars, note, notes, activeNoteId,
                 isGeneratorModalOpen, now, edits>>

(* onClose: Escape, the backdrop or Cancel; the modal is unmounted *)
GenClose ==
  /\ isGeneratorModalOpen
  /\ isGeneratorModalOpen' = FALSE
  /\ generator' = [NoGenerator EXCEPT !.inst = generator.inst]
  /\ lastOp' = Op("generatorClose")
  /\ UNCHANGED <<domVars, uiVars, sttVars, vizVars, note, notes, activeNoteId, genReqs,
                 now, edits>>

(* the modal instance that made request rq is the one on screen *)
GenMounted(rq) == isGeneratorModalOpen /\ generator.inst = rq.inst

(* the catch of handleSubmit: an update of an unmounted instance is dropped *)
handleSubmitCatchIgnores(rq, message) == generator
handleSubmitCatch(rq, message) ==
  IF GenMounted(rq) THEN [generator EXCEPT !.error = message, !.isLoading = FALSE]
  ELSE generator

(* the service call of request i fails: handleGenerateNote logs and throws *)
(* again, handleSubmit catches                                             *)
GenReject(i, message) ==
  /\ i \in 1..Len(genReqs)
  /\ message \in ServiceErrors(genReqs[i].type)
  /\ genReqs' = SeqRemove(genReqs, i)
  /\ generator' = handleSubmitCatch(genReqs[i], message)
  /\ lastOp' = [Op("generateRejected") EXCEPT !.empty = ~GenMounted(genReqs[i]),
                                              !.n = genReqs[i].inst]
  /\ UNCHANGED <<domVars, uiVars, sttVars, vizVars, note, notes, activeNoteId,
                 isGeneratorModalOpen, now, edits>>

(* the service call of request i answers: the rest of handleGenerateNote.  *)
(* The new note goes in front of the notes the call started with, becomes  *)
(* the active one and the modal is closed; Editor is keyed by the id.      *)
GenResolve(i, sources) ==
  /\ i \in 1..Len(genReqs)
  /\ sources = 0 \/ genReqs[i].type = "note"
  /\ LET rq == genReqs[i]
         finalContent == ServiceContent(rq.type) \o SourcesMarkdown(sources)
         newNote == Note(now, rq.topic, finalContent, now, rq.type)
     IN /\ notes' = <<newNote>> \o rq.notes
        /\ activeNoteId' = newNote.id
        /\ isGeneratorModalOpen' = FALSE
        /\ generator' = [NoGenerator EXCEPT !.inst = generator.inst]
        /\ genReqs' = SeqRemove(genReqs, i)
        /\ Renders(<<newNote>> \o rq.notes, newNote.id)
        /\ lastOp' = [Op("generateResolved") EXCEPT !.n = rq.inst]
  /\ UNCHANGED <<vizVars, now, edits>>

(* ------------------------- App and the sidebar ------------------------- *)
(* the content addNote gives a note *)
WelcomeContent == <<MdBlock("h2", <<"W">>), MdBlock("p", <<"S">>)>>

(* the sidebar can be clicked: no modal lies over it *)
SidebarShown == ~isGeneratorModalOpen /\ ~isVisualizationModalOpen

(* addNote *)
AddNote ==
  /\ SidebarShown
  /\ Len(AppNotes) < MaxNotes
  /\ notes' = <<Note(now, UntitledNote, WelcomeContent, now, "note")>> \o AppNotes
  /\ activeNoteId' = now
  /\ Renders(<<Note(now, UntitledNote, WelcomeContent, now, "note")>> \o AppNotes, now)
  /\ lastOp' = [Op("addNote") EXCEPT !.n = now]
  /\ UNCHANGED <<isGeneratorModalOpen, generator, genReqs, now, vizVars, edits>>

(* onSelectNote={setActiveNoteId}: a click on entry i of the sidebar *)
SelectNote(i) ==
  /\ SidebarShown
  /\ i \in 1..Len(AppNotes)
  /\ notes' = AppNotes
  /\ activeNoteId' = AppNotes[i].id
  /\ Renders(AppNotes, AppNotes[i].id)
  /\ lastOp' = [Op("selectNote") EXCEPT !.n = AppNotes[i].id]
  /\ UNCHANGED <<isGeneratorModalOpen, generator, genReqs, now, vizVars, edits>>

(* deleteNote(idToDelete): the id the active note has after it; when the   *)
(* sorted notes hold nothing but notes of this id, [0] is undefined, the   *)
(* handler throws and setActiveNoteId is not reached                       *)
deleteNoteThrows(ns, active, idToDelete) ==
  /\ active = idToDelete
  /\ Len(sortedNotes(ns)) > 1
  /\ FilterNotes(sortedNotes(ns), idToDelete) = <<>>
deleteNoteActive(ns, active, idToDelete) ==
  IF active # idToDelete \/ deleteNoteThrows(ns, active, idToDelete) THEN active
  ELSE IF Len(sortedNotes(ns)) > 1 THEN FilterNotes(sortedNotes(ns), idToDelete)[1].id
  ELSE NoNote

(* the delete button of entry i of the sidebar *)
DeleteNote(i) ==
  /\ SidebarShown
  /\ i \in 1..Len(AppNotes)
  /\ notes' = FilterNotes(AppNotes, AppNotes[i].id)
  /\ activeNoteId' = deleteNoteActive(AppNotes, activeNoteId, AppNotes[i].id)
  /\ Renders(FilterNotes(AppNotes, AppNotes[i].id),
             deleteNoteActive(AppNotes, activeNoteId, AppNotes[i].id))
  /\ lastOp' = [Op("deleteNote") EXCEPT
                  !.n = AppNotes[i].id,
                  !.wrote = (activeNoteId = AppNotes[i].id),
                  !.empty = deleteNoteThrows(AppNotes, activeNoteId, AppNotes[i].id)]
  /\ UNCHANGED <<isGeneratorModalOpen, generator, genReqs, now, vizVars, edits>>

(* updateNote(updatedNote): every note of the id takes the fields given    *)
(* and the clock reading                                                   *)
updateNote(ns, id, title) ==
  [i \in 1..Len(ns) |->
     IF ns[i].id = id THEN [ns[i] EXCEPT !.title = title, !.lastModified = now] ELSE ns[i]]

(* the title input of Editor: onEdit('title', value) *)
EditTitle(title) ==
  /\ SidebarShown
  /\ FindNote(AppNotes, activeNoteId) # 0
  /\ AppNotes[FindNote(AppNotes, activeNoteId)].title # title
  /\ notes' = updateNote(AppNotes, activeNoteId, title)
  /\ note' = [content |-> AppNotes[FindNote(AppNotes, activeNoteId)].content,
              lastModified |-> now]
  /\ lastOp' = [Op("updateNote") EXCEPT !.n = activeNoteId, !.text = title]
  /\ UNCHANGED <<domVars, uiVars, sttVars, vizVars, activeNoteId, isGeneratorModalOpen,
                 generator, genReqs, now, edits>>

(* Date.now() moves on *)
Tick ==
  /\ now < MaxNow
  /\ now' = now + 1
  /\ lastOp' = Op("tick")
  /\ UNCHANGED <<domVars, uiVars, sttVars, vizVars, note, notes, activeNoteId,
                 isGeneratorModalOpen, generator, genReqs, edits>>


(* ------------------------- VisualizationModal -------------------------- *)
(* the "Visualize" button of Editor: the modal is mounted and its effect   *)
(* calls generateMindMap(noteContent)                                      *)
VizOpen ==
  /\ ~isVisualizationModalOpen
  /\ viz.inst < MaxMounts
  /\ Len(vizReqs) < MaxPending
  /\ isVisualizationModalOpen' = TRUE
  /\ viz' = [NoViz EXCEPT !.inst = viz.inst + 1]
  /\ vizReqs' = Append(vizReqs, [inst |-> viz.inst + 1, noteContent |-> note.content])
  /\ lastOp' = Op("visualizationOpen")
  /\ UNCHANGED <<domVars, uiVars, sttVars, appVars, note, layout, edits>>

(* onClose: Escape, the backdrop or a Close button; the modal is unmounted *)
VizClose ==
  /\ isVisualizationModalOpen
  /\ isVisualizationModalOpen' = FALSE
  /\ viz' = [NoViz EXCEPT !.inst = viz.inst]
  /\ lastOp' = Op("visualizationClose")
  /\ UNCHANGED <<domVars, uiVars, sttVars, appVars, note, vizReqs, layout, edits>>

(* the messages generateMindMap throws *)
MindMapErrors ==
  {"Error: API_KEY is not configured.",
   "The AI failed to generate a mind map. The note might be too short or complex. Please try again."}

(* the client area of the canvas container, in pixels *)
ContainerSizes == {<<1200, 1050>>, <<800, 525>>, <<150, 105>>}

(* the effect on [mindMap]: the map is fitted into the container *)
FitTransform(size) ==
  LET scale == Min(Min((size[1] * 1000) \div 1050, (size[2] * 1000) \div 1050), 1000)
  IN [scale |-> scale,
      x |-> (Px(size[1]) - (Px(1000) * scale) \div 1000) \div 2,
      y |-> (Px(size[2]) - (Px(1000) * scale) \div 1000) \div 2]

(* the modal instance that made request rq is the one on screen *)
VizMounted(rq) == isVisualizationModalOpen /\ viz.inst = rq.inst

(* .then / .catch / .finally of the generateMindMap effect with answer     *)
(* data (NoMindMap: the call failed with message); fitted tells whether    *)
(* the container was in the tree when the [mindMap] effect ran.  A state   *)
(* update of an instance that is no longer mounted is dropped.             *)
VizSettledAnyway(rq, data, message, size, fitted) ==
  [viz EXCEPT !.mindMap = data, !.error = IF data = NoMindMap THEN message ELSE "",
              !.isLoading = FALSE]
VizSettled(rq, data, message, size, fitted) ==
  IF ~VizMounted(rq) THEN viz
  ELSE IF data = NoMindMap THEN [viz EXCEPT !.error = message, !.isLoading = FALSE]
  ELSE [viz EXCEPT !.mindMap = data, !.isLoading = FALSE,
                   !.transform = IF fitted THEN FitTransform(size) ELSE @]

VizResolve(i, data, size, fitted) ==
  /\ i \in 1..Len(vizReqs)
  /\ vizReqs' = SeqRemove(vizReqs, i)
  /\ viz' = VizSettled(vizReqs[i], data, "", size, fitted)
  /\ lastOp' = [Op("mindMapSettled") EXCEPT !.empty = ~VizMounted(vizReqs[i]),
                                            !.n = vizReqs[i].inst, !.wrote = TRUE]
  /\ UNCHANGED <<domVars, uiVars, sttVars, appVars, note, isVisualizationModalOpen,
                 layout, edits>>

VizReject(i, message) ==
  /\ i \in 1..Len(vizReqs)
  /\ vizReqs' = SeqRemove(vizReqs, i)
  /\ viz' = VizSettled(vizReqs[i], NoMindMap, message, <<0, 0>>, FALSE)
  /\ lastOp' = [Op("mindMapSettled") EXCEPT !.empty = ~VizMounted(vizReqs[i]),
                                            !.n = vizReqs[i].inst]
  /\ UNCHANGED <<domVars, uiVars, sttVars, appVars, note, isVisualizationModalOpen,
                 layout, edits>>

(* the canvas is rendered, with its mouse and wheel handlers *)
CanvasShown == isVisualizationModalOpen /\ ~viz.isLoading /\ viz.error = ""
               /\ viz.mindMap # NoMindMap

(* wheel deltas and pointer positions inside the container, in pixels *)
WheelDeltas == {-3000, -100, 100, 3000}
Pointers == {<<0, 0>>, <<400, 300>>}

(* Math.max(0.2, Math.min(nextScale, 2)) *)
ClampScaleAbove(nextScale) == Min(nextScale, 2000)
ClampScale(nextScale) == Max(200, Min(nextScale, 2000))

(* handleWheel: deltaY * zoomIntensity is deltaY thousandths; the point    *)
(* under the pointer is kept (a quotient by scale 0 is not a number and    *)
(* is written 0)                                                           *)
handleWheelByNextScale(transform, deltaY, mouse) ==
  [scale |-> ClampScale(transform.scale - deltaY),
   x |-> IF transform.scale = 0 THEN 0
         ELSE Px(mouse[1]) - ((Px(mouse[1]) - transform.x) * (transform.scale - deltaY))
                               \div transform.scale,
   y |-> IF transform.scale = 0 THEN 0
         ELSE Px(mouse[2]) - ((Px(mouse[2]) - transform.y) * (transform.scale - deltaY))
                               \div transform.scale]
handleWheel(transform, deltaY, mouse) ==
  LET Zoomed(scale) ==
        [scale |-> scale,
         x |-> IF transform.scale = 0 THEN 0
               ELSE Px(mouse[1]) - ((Px(mouse[1]) - transform.x) * scale) \div transform.scale,
         y |-> IF transform.scale = 0 THEN 0
               ELSE Px(mouse[2]) - ((Px(mouse[2]) - transform.y) * scale) \div transform.scale]
  IN Zoomed(ClampScale(transform.scale - deltaY))

VizWheel(deltaY, mouse) ==
  /\ CanvasShown
  /\ viz.wheel < MaxWheel
  /\ viz' = [viz EXCEPT !.transform = handleWheel(viz.transform, deltaY, mouse),
                        !.wheel = @ + 1]
  /\ lastOp' = [Op("wheel") EXCEPT !.n = deltaY, !.m = viz.transform.scale,
                                   !.k = mouse[1], !.block = mouse[2]]
  /\ UNCHANGED <<domVars, uiVars, sttVars, appVars, note, isVisualizationModalOpen,
                 vizReqs, layout, edits>>

(* handleMouseDown: a press on a mind-map node is left alone; any other    *)
(* press starts the pan and notes the pointer relative to the translation  *)
handleMouseDown(v, onNode, client) ==
  IF onNode THEN v
  ELSE [v EXCEPT !.isPanning = TRUE, !.gesture = TRUE,
                 !.panStart = <<Px(client[1]) - v.transform.x, Px(client[2]) - v.transform.y>>]

VizMouseDown(onNode, client) ==
  /\ CanvasShown
  /\ viz.mouse < MaxMouse
  /\ viz' = [handleMouseDown(viz, onNode, client) EXCEPT !.mouse = @ + 1]
  /\ lastOp' = [Op("mouseDown") EXCEPT !.empty = onNode, !.k = client[1], !.block = client[2]]
  /\ UNCHANGED <<domVars, uiVars, sttVars, appVars, note, isVisualizationModalOpen,
                 vizReqs, layout, edits>>

(* handleMouseUp, the handler of mouse-up and of mouse-leave *)
handleMouseUp(v) == [v EXCEPT !.isPanning = FALSE, !.gesture = FALSE]

VizMouseUp ==
  /\ CanvasShown
  /\ viz.mouse < MaxMouse
  /\ viz' = [handleMouseUp(viz) EXCEPT !.mouse = @ + 1]
  /\ lastOp' = Op("mouseUp")
  /\ UNCHANGED <<domVars, uiVars, sttVars, appVars, note, isVisualizationModalOpen,
                 vizReqs, layout, edits>>

VizMouseLeave ==
  /\ CanvasShown
  /\ viz.mouse < MaxMouse
  /\ viz' = [handleMouseUp(viz) EXCEPT !.mouse = @ + 1]
  /\ lastOp' = Op("mouseLeave")
  /\ UNCHANGED <<domVars, uiVars, sttVars, appVars, note, isVisualizationModalOpen,
                 vizReqs, layout, edits>>

(* handleMouseMove: while panning the translation follows the pointer *)
handleMouseMoveAlways(v, client) ==
  [v EXCEPT !.transform.x = Px(client[1]) - v.panStart[1],
            !.transform.y = Px(client[2]) - v.panStart[2]]
handleMouseMove(v, client) ==
  IF ~v.isPanning THEN v
  ELSE [v EXCEPT !.transform.x = Px(client[1]) - v.panStart[1],
                 !.transform.y = Px(client[2]) - v.panStart[2]]

VizMouseMove(client) ==
  /\ CanvasShown
  /\ viz.mouse < MaxMouse
  /\ viz' = [handleMouseMove(viz, client) EXCEPT !.mouse = @ + 1]
  /\ lastOp' = [Op("mouseMove") EXCEPT !.wrote = viz.isPanning, !.k = client[1],
                                       !.block = client[2]]
  /\ UNCHANGED <<domVars, uiVars, sttVars, appVars, note, isVisualizationModalOpen,
                 vizReqs, layout, edits>>


(* ----------------------- calls of calculateLayout ---------------------- *)
(* the call seeds layoutNodes and enters the loop with i = 0 *)
LayoutCall(mindMapData) ==
  /\ layout.phase # "running"
  /\ layout.calls < MaxCalls
  /\ layout' = [phase |-> "running", data |-> mindMapData, nodes |-> Seed(mindMapData),
                i |-> 0, calls |-> layout.calls + 1,
                prev |-> IF layout.phase = "returned"
                         THEN [data |-> layout.data, nodes |-> layout.nodes]
                         ELSE layout.prev]
  /\ lastOp' = Op("calculateLayout")
  /\ UNCHANGED <<domVars, uiVars, sttVars, appVars, note, isVisualizationModalOpen, viz,
                 vizReqs, edits>>

(* the test of the for loop *)
LoopRunsWhileMoving(l) == l.i < iterations /\ Relax(l.nodes) # l.nodes
LoopRuns(l) == l.i < iterations

LayoutIterate ==
  /\ layout.phase = "running"
  /\ LoopRuns(layout)
  /\ layout' = [layout EXCEPT !.nodes = Relax(@), !.i = @ + 1]
  /\ lastOp' = [Op("relax") EXCEPT !.n = layout.i, !.wrote = RepelledByCentral(layout.nodes)]
  /\ UNCHANGED <<domVars, uiVars, sttVars, appVars, note, isVisualizationModalOpen, viz,
                 vizReqs, edits>>

LayoutReturn ==
  /\ layout.phase = "running"
  /\ ~LoopRuns(layout)
  /\ layout' = [layout EXCEPT !.phase = "returned"]
  /\ lastOp' = [Op("layoutReturned") EXCEPT !.n = layout.i]
  /\ UNCHANGED <<domVars, uiVars, sttVars, appVars, note, isVisualizationModalOpen, viz,
                 vizReqs, edits>>

(* the page is loaded again, no modal open and no request pending, and the *)
(* note opened: a new Editor renders the stored content                    *)
Reopen ==
  /\ ~isGeneratorModalOpen /\ ~isVisualizationModalOpen
  /\ genReqs = <<>> /\ vizReqs = <<>>
  /\ EditorMounts(note.content, note.lastModified)
  /\ lastOp' = [Op("reopen") EXCEPT !.empty = BlurWrites(Root, note.content)]
  /\ UNCHANGED <<appVars, vizVars, edits>>

Init == Mounted(InitContents)

Next ==
  \/ \E r \in Clickable(Root) : MouseSelect(r)
  \/ \E c \in Chars : KeyPress(c)
  \/ Blur
  \/ \E i \in 1..Len(ALL_COMMANDS) : CommandSelect(ALL_COMMANDS[i])
  \/ MenuEscape
  \/ \E p \in ModalInputs : ModalSetRows(p)
  \/ \E p \in ModalInputs : ModalSetCols(p)
  \/ ModalClose
  \/ ModalSubmit
  \/ AskAiButton
  \/ AssistantClose
  \/ AssistantSubmit
  \/ \E i \in 1..MaxPending, result \in AiResults : AiResolve(i, result)
  \/ \E i \in 1..MaxPending : AiReject(i)
  \/ ToggleDictation
  \/ \E w \in Words : RecResult(w)
  \/ \E kind \in ErrorKinds : RecError(kind)
  \/ RecEnd
  \/ RetryTimer

Spec == Init /\ [][Next]_vars

(* ------------------------ the slash commands alone --------------------- *)
NextCmd ==
  \/ \E r \in Carets(Root) : MouseSelect(r)
  \/ \E c \in {"/", "a"} : KeyPress(c)
  \/ \E i \in 1..Len(ALL_COMMANDS) : CommandSelect(ALL_COMMANDS[i])
  \/ MenuEscape
  \/ ModalClose
  \/ AssistantClose

SpecCmd == Init /\ [][NextCmd]_vars

(* ---------------------------- the table modal -------------------------- *)
NextTable ==
  \/ \E r \in Carets(Root) : MouseSelect(r)
  \/ KeyPress("/")
  \/ \E i \in 1..Len(ALL_COMMANDS) : CommandSelect(ALL_COMMANDS[i])
  \/ \E p \in ModalInputs : ModalSetRows(p)
  \/ \E p \in ModalInputs : ModalSetCols(p)
  \/ ModalClose
  \/ ModalSubmit

SpecTable == Init /\ [][NextTable]_vars

(* ------------------------ the assistant and saving --------------------- *)
AiContents == {<<MdBlock("p", <<"a">>)>>}

NextAi ==
  \/ \E r \in Clickable(Root) : MouseSelect(r)
  \/ KeyPress("a")
  \/ Blur
  \/ AskAiButton
  \/ AssistantClose
  \/ AssistantSubmit
  \/ \E i \in 1..MaxPending, result \in AiResults : AiResolve(i, result)
  \/ \E i \in 1..MaxPending : AiReject(i)

SpecAi == Mounted(AiContents) /\ [][NextAi]_vars
(* ------------- every step that restructures the document -------------- *)
SelContents == {<<>>, <<MdBlock("p", <<"a">>)>>}

NextSel ==
  \/ \E r \in Carets(Root) : MouseSelect(r)
  \/ KeyPress("/")
  \/ \E i \in 1..Len(ALL_COMMANDS) : CommandSelect(ALL_COMMANDS[i])
  \/ ModalSubmit
  \/ AssistantSubmit
  \/ \E i \in 1..MaxPending, result \in AiResults : AiResolve(i, result)
  \/ ToggleDictation
  \/ RecResult(<<"d">>)

SpecSel == Mounted(SelContents) /\ [][NextSel]_vars

(* ------------------------------ dictation ------------------------------ *)
SttContents == {<<MdBlock("p", <<"a">>)>>}

NextStt ==
  \/ ToggleDictation
  \/ RecResult(<<"d">>)
  \/ \E kind \in ErrorKinds : RecError(kind)
  \/ RecEnd
  \/ RetryTimer

SpecStt == Mounted(SttContents) /\ [][NextStt]_vars

(* ------------------- dictation while the user selects ------------------ *)
(* the user selects in the document as it was opened *)
NextDictate ==
  \/ \E r \in Clickable(Root) : edits = 0 /\ MouseSelect(r)
  \/ ToggleDictation
  \/ RecResult(<<"d">>)
  \/ RecEnd

SpecDictate == Mounted(SttContents) /\ [][NextDictate]_vars

(* ------------------------- the slash menu alone ------------------------ *)
NextMenu ==
  \/ \E q \in MenuQueries : MenuRenders(q)
  \/ \E key \in {"ArrowDown", "ArrowUp"} : MenuArrow(key)
  \/ MenuEscape

SpecMenu == Init /\ [][NextMenu]_vars

(* ----------------------- the slash menu by its keys -------------------- *)
NextKeys ==
  \/ \E r \in Carets(Root) : MouseSelect(r)
  \/ \E c \in {"/", "a"} : KeyPress(c)
  \/ \E key \in {"ArrowDown", "ArrowUp"} : MenuArrow(key)
  \/ MenuEnter
  \/ MenuEscape
  \/ ModalClose
  \/ AssistantClose

SpecKeys == Init /\ [][NextKeys]_vars

(* ------------------------------- typing -------------------------------- *)
NextType ==
  \/ \E r \in Carets(Root) : MouseSelect(r)
  \/ \E c \in Chars : KeyPress(c)
  \/ MenuEscape
  \/ AssistantClose

SpecType == Init /\ [][NextType]_vars

(* =============================== properties ============================ *)
(* two subtrees are the same but for the ids of their nodes *)
Same(a, b) == Renumber(a, 1) = Renumber(b, 1)

(* the last step was the commit of a block-creating command *)
BlockCommandDone(op) == op.name = "handleCommandSelect" /\ op.cmd \in BlockCommands

(* the index in doc of the top-level element that holds the cursor, 0 if none *)
CursorBlock ==
  IF sel = 0 THEN 0
  ELSE LET tops == {i \in 1..Len(doc) : /\ ranges[sel].sn \in Ids(doc[i])
                                         /\ doc[i].type # "#text"}
       IN IF tops = {} THEN 0 ELSE CHOOSE i \in tops : TRUE

(* the element a command is to create: its tag, and no text in it *)
IsNewBlock(n, cmd) ==
  /\ n.type = CASE cmd \in {"bulletedList", "todoList"} -> "ul"
                 [] cmd = "numberedList" -> "ol"
                 [] cmd = "codeBlock" -> "pre"
                 [] OTHER -> cmd
  /\ Trim(textContent(n)) = <<>>

(* C1: a block-creating command replaces the cursor's top-level block by   *)
(* the new element if the block's text is empty once the trigger has been  *)
(* removed, and puts the new element right after the block otherwise;      *)
(* every other block keeps its content and its place.                      *)
C1_Step ==
  BlockCommandDone(lastOp') =>
    LET b == CursorBlock
        text == IF b = 0 THEN <<>> ELSE Trim(textContent(doc[b]))
        empty == text = <<>> \/ StartsWith(text, <<"/">> \o slashMenuState.query)
        at == IF b = 0 THEN Len(doc) + 1 ELSE IF empty THEN b ELSE b + 1
        skip == IF b # 0 /\ empty THEN 1 ELSE 0
    IN /\ Len(doc') = Len(doc) + 1 - skip
       /\ IsNewBlock(doc'[at], lastOp'.cmd)
       /\ \A i \in 1..(at - 1) : Same(doc'[i], doc[i])
       /\ \A i \in (at + 1)..Len(doc') : Same(doc'[i], doc[i - 1 + skip])

Slashes(t) == Cardinality({i \in 1..Len(t) : t[i] = "/"})

(* C2: when a command of the slash menu is committed, the trigger text     *)
(* (the "/" and the query typed after it) is no longer in the document,    *)
(* wherever its Text node sits in the top-level block.  Stated for the     *)
(* commits made while the trigger's "/" is the only one in the document.   *)
C2_Step ==
  (lastOp'.name = "handleCommandSelect" /\ Slashes(textContent(Root)) = 1) =>
    Slashes(textContent(EditorRoot(doc'))) = 0

C2_TriggerRemoved == [][C2_Step]_vars

(* ------------------------------- tables -------------------------------- *)
HeaderCells(table) == table.kids[1].kids[1].kids
BodyRows(table) == table.kids[2].kids

(* a table of the given size: header cells "Header 1" .. "Header cols",    *)
(* rows body rows of cols empty cells                                      *)
IsTable(n, rows, cols) ==
  /\ n.type = "table" /\ Len(n.kids) = 2
  /\ n.kids[1].type = "thead" /\ Len(n.kids[1].kids) = 1
  /\ n.kids[2].type = "tbody"
  /\ Len(HeaderCells(n)) = cols
  /\ \A i \in 1..cols : /\ HeaderCells(n)[i].type = "th"
                         /\ textContent(HeaderCells(n)[i]) = HeaderLabel(i)
  /\ Len(BodyRows(n)) = rows
  /\ \A i \in 1..rows : /\ BodyRows(n)[i].type = "tr"
                         /\ Len(BodyRows(n)[i].kids) = cols
                         /\ \A j \in 1..cols : /\ BodyRows(n)[i].kids[j].type = "td"
                                                /\ textContent(BodyRows(n)[i].kids[j]) = <<>>

IsEmptyParagraph(n) == n.type = "p" /\ textContent(n) = <<>>

(* the table of the given size stands at place i of the document, an empty *)
(* paragraph follows it, and the collapsed cursor is in that paragraph     *)
TableAt(i, rows, cols) ==
  /\ IsTable(doc[i], rows, cols)
  /\ IsEmptyParagraph(doc[i + 1])
  /\ sel # 0
  /\ ranges[sel] = Caret(doc[i + 1].id, 0)

(* C3: handleCreateTable with rows >= 1 and cols >= 1 inserts a table with *)
(* cols header cells "Header 1" .. "Header cols" and rows body rows of     *)
(* cols empty cells, followed by one empty paragraph that holds the        *)
(* collapsed cursor.                                                       *)
C3_TableInserted ==
  (lastOp.name = "handleCreateTable" /\ lastOp.n >= 1 /\ lastOp.m >= 1) =>
    \E i \in 1..(Len(doc) - 1) : TableAt(i, lastOp.n, lastOp.m)

(* C3 witness: a table of 2 rows and 1 column has been inserted *)
C3_Witness ==
  /\ lastOp.name = "handleCreateTable" /\ lastOp.n = 2 /\ lastOp.m = 1
  /\ \E i \in 1..(Len(doc) - 1) : TableAt(i, 2, 1)

(* the tables of the document *)
Tables == {n \in Nodes(Root) : n.type = "table"}

(* C4: a number of rows or columns of zero or less counts as 1, so the     *)
(* table inserted is the one made with 1 in its place; no table without    *)
(* header cells or without body rows is ever in the document.              *)
C4_Clamped ==
  /\ (lastOp.name = "setRows" /\ lastOp.n <= 0) => modal.rows = 1
  /\ (lastOp.name = "setCols" /\ lastOp.n <= 0) => modal.cols = 1
  /\ (lastOp.name = "handleCreateTable" /\ lastOp.prev = "setRows" /\ lastOp.k <= 0) =>
       \E i \in 1..(Len(doc) - 1) : TableAt(i, 1, lastOp.m)
  /\ (lastOp.name = "handleCreateTable" /\ lastOp.prev = "setCols" /\ lastOp.k <= 0) =>
       \E i \in 1..(Len(doc) - 1) : TableAt(i, lastOp.n, 1)
  /\ \A t \in Tables : Len(HeaderCells(t)) >= 1 /\ Len(BodyRows(t)) >= 1

(* C4 witness: -1 was entered for the rows and the table then created has  *)
(* one body row                                                            *)
C4_Witness ==
  /\ lastOp.name = "handleCreateTable" /\ lastOp.prev = "setRows" /\ lastOp.k = -1
  /\ \E t \in Tables : Len(BodyRows(t)) = 1

(* ------------------------- the cursor after a command ------------------ *)
(* the place in doc of the element the last block-creating command made *)
NewBlockAt ==
  IF lastOp.block = 0 THEN Len(doc)
  ELSE IF lastOp.empty THEN lastOp.block ELSE lastOp.block + 1

(* the node of the new element that is to hold the cursor: the element     *)
(* itself for a heading or a blockquote, the list item of a list, the code *)
(* element of a code block                                                 *)
EntryNode(block, cmd) ==
  IF cmd \in {"h1", "h2", "h3", "blockquote"} THEN block ELSE block.kids[1]

(* C5: after a block-creating command the selection is collapsed inside    *)
(* the new element: at offset 2 of the new list item (after the checkbox   *)
(* and the space) for the to-do list, at the start of the new element's    *)
(* content for every other command.                                       *)
C5_CursorInNewElement ==
  BlockCommandDone(lastOp) =>
    LET block == doc[NewBlockAt]
        entry == EntryNode(block, lastOp.cmd)
    IN /\ IsNewBlock(block, lastOp.cmd)
       /\ sel # 0
       /\ IsCollapsed(ranges[sel])
       /\ ranges[sel].sn = entry.id
       /\ IF lastOp.cmd = "todoList"
          THEN /\ entry.type = "li"
               /\ Len(entry.kids) = 2
               /\ entry.kids[1].type = "input"
               /\ entry.kids[2].text = <<NBSP>>
               /\ ranges[sel].so = 2
          ELSE /\ entry.type = CASE lastOp.cmd \in {"bulletedList", "numberedList"} -> "li"
                                  [] lastOp.cmd = "codeBlock" -> "code"
                                  [] OTHER -> lastOp.cmd
               /\ ranges[sel].so = 0

(* C5 witness: the to-do list command has put the cursor after the        *)
(* checkbox and the space of the new item                                  *)
C5_Witness ==
  /\ BlockCommandDone(lastOp) /\ lastOp.cmd = "todoList"
  /\ sel # 0
  /\ ranges[sel] = Caret(doc[NewBlockAt].kids[1].id, 2)

(* ------------------------------ live ranges ---------------------------- *)
(* both boundary points of the range lie in nodes of the document tree,    *)
(* at offsets those nodes have                                             *)
InTree(r) ==
  /\ {r.sn, r.en} \subseteq Ids(Root)
  /\ r.so \in 0..NodeLength(FindNode(Root, r.sn))
  /\ r.eo \in 0..NodeLength(FindNode(Root, r.en))

StructuralSteps == {"handleCommandSelect", "handleCreateTable", "aiResolved", "insertDictated"}

C7_Step == Turndown(doc') = note.content => note' = note

C7_WritesOnlyChanges == [][C7_Step]_vars

(* ------------------------------ AI results ----------------------------- *)
(* the text of the document before and after a range *)
TextBefore(root, r) ==
  RangeText(root, [sn |-> root.id, so |-> 0, en |-> r.sn, eo |-> r.so])
TextAfter(root, r) ==
  RangeText(root, [sn |-> r.en, so |-> r.eo, en |-> root.id, eo |-> Len(root.kids)])

(* the elements of a tree without its Text nodes and without ids *)
RECURSIVE Skeleton(_)
Skeleton(n) ==
  LET es == SelectSeq(n.kids, LAMBDA k : k.type # "#text")
  IN <<n.type, [i \in 1..Len(es) |-> Skeleton(es[i])]>>

(* C8: when a request succeeds and it has a saved selection, the contents  *)
(* of the selection are deleted and the result is put there as one Text    *)
(* node (no markup is rendered); without a saved selection the result,     *)
(* rendered from markup, is appended at the end of the document; in both   *)
(* cases the document is then serialized and saved.                        *)
C8_Step ==
  lastOp'.name = "aiResolved" =>
    LET req == aiReqs[lastOp'.n]
        result == lastOp'.text
        after == EditorRoot(doc')
        md == Turndown(doc')
    IN /\ IF req.savedRange # 0
          THEN LET r == ranges[req.savedRange]
               IN /\ textContent(after) = TextBefore(Root, r) \o result \o TextAfter(Root, r)
                  /\ Skeleton(after) = Skeleton(Root)
                  /\ \E t \in Nodes(after) : t.type = "#text" /\ t.text = result
          ELSE /\ Len(doc') = Len(doc) + 2
               /\ \A i \in 1..Len(doc) : textContent(doc'[i]) = textContent(doc[i])
                                          /\ Skeleton(doc'[i]) = Skeleton(doc[i])
               /\ doc'[Len(doc) + 1].type = "br"
               /\ Same(doc'[Len(doc) + 2], Element(0, "p", <<TextNode(0, result)>>))
       /\ IF md # req.content
          THEN note' = [content |-> md, lastModified |-> note.lastModified + 1]
          ELSE note' = note

C8_ResultApplied == [][C8_Step]_vars

(* C8 witness: a result has been appended for a request without a saved    *)
(* selection                                                               *)
C8_Witness ==
  /\ lastOp.name = "aiResolved" /\ ~lastOp.empty
  /\ Len(doc) >= 2
  /\ doc[Len(doc) - 1].type = "br"
  /\ textContent(doc[Len(doc)]) = lastOp.text
(* ---- C9 ---- *)
(* C9: when an AI request issued from the editor fails, the document tree *)
(* and the note's stored content are as they were: neither the step that  *)
(* issues the request nor the step in which it fails changes them.        *)
C9_Step ==
  lastOp'.name \in {"handleAiRequest", "aiRejected"} => doc' = doc /\ note' = note

C9_FailureLeavesState == [][C9_Step]_vars

(* C9 witness: a request has failed while the tree held text the note did *)
(* not have yet, the case in which a save would have written.             *)
C9_Witness ==
  /\ lastOp.name = "aiRejected"
  /\ Turndown(doc) # note.content

(* ---- C10 ---- *)
(* C10: after an AI request issued from the editor has failed, the AI     *)
(* assistant is open and shows an error message, from which the request   *)
(* can be made again.                                                     *)
C10_ErrorSurfaced ==
  lastOp.name = "aiRejected" => isAssistantOpen /\ assistant.error

(* ---- C11 ---- *)
(* C11: at most one AI request is in flight against the document: while a *)
(* request started by handleAiRequest has not settled, no second request  *)
(* is started.                                                            *)
C11_OneRequestInFlight == Len(aiReqs) <= 1


DictatedAt(r, t) ==
  IF r = NoRange THEN Canon(InsertDictated(D0, 0, t)).root.kids
  ELSE Canon(InsertDictated(NewRange(D0, r), Len(ranges) + 1, t)).root.kids

(* C13: when a dictation session ends with a transcript, the text is      *)
(* inserted at the selection that toggleDictation saved when the session  *)
(* was started, at the end of the document if it saved none; the saved    *)
(* selection is null afterwards and the note holds the serialized         *)
(* document.  (Stated for sessions during which the document was not      *)
(* edited, so that the saved range still names the same place.)           *)
C13_Step ==
  isListening /\ dictation'.inserted = dictation.inserted + 1 /\ dictation.at = edits
    => /\ doc' = DictatedAt(dictation.saved, transcript')
       /\ savedRange' = 0
       /\ note'.content = Turndown(doc')
C13_InsertedAtSaved == [][C13_Step]_vars

(* the last step was a 'network' error in a session that is meant to run *)
NetworkError(op) == op.name = "onerror" /\ op.cmd = "network" /\ op.empty

(* C14: within one listening session, of the 'network' errors that follow *)
(* one another with no result between them, the first three each schedule *)
(* one restart, after 1000, 2000 and 4000 ms, and the next schedules none *)
(* and ends the session: isListening is false and error is the network    *)
(* error message.                                                         *)
C14_Step ==
  NetworkError(lastOp') =>
    IF dictation.errs < 3
    THEN retryTimeout' = <<1000, 2000, 4000>>[dictation.errs + 1] /\ isListening'
    ELSE /\ retryTimeout' = 0
         /\ ~isListening'
         /\ sttError' = "Network error. Please check your connection and try again."
C14_RetrySchedule == [][C14_Step]_vars

(* C15: a result event sets the retry counter to zero: of the 'network'   *)
(* errors that follow a result of the session with no other result        *)
(* between, the first schedules a restart after 1000 ms and the first     *)
(* three each schedule one, after 1000, 2000 and 4000 ms.                 *)
C15_Step ==
  /\ lastOp'.name = "onresult" => retryCount' = 0
  /\ NetworkError(lastOp') /\ dictation.results > 0 /\ dictation.errs < 3 =>
       /\ retryTimeout' = <<1000, 2000, 4000>>[dictation.errs + 1]
       /\ isListening'
C15_ResultResetsRetries == [][C15_Step]_vars

(* a network error right after a result that followed earlier retries *)
C15_Witness ==
  /\ NetworkError(lastOp)
  /\ lastOp.prev = "onresult"
  /\ lastOp.k >= 1
  /\ retryTimeout = 1000
  /\ dictation.results > 0

(* C16: stop() cancels the retry timer that is pending, and from then on  *)
(* the recognition is not started again until start() is called: while    *)
(* the session is not meant to run, no retry timer is pending and the     *)
(* recognition is not active, whatever events and timers come in between. *)
C16_Step ==
  /\ lastOp'.name = "stopStt" => retryTimeout' = 0 /\ ~listeningIntentionally'
  /\ ~listeningIntentionally /\ lastOp'.name # "startStt" =>
       /\ ~listeningIntentionally'
       /\ retryTimeout' = 0
       /\ recognition' # "active"
C16_StopCancelsRetry == [][C16_Step]_vars

(* stop() was called while a retry timer was pending *)
C16_Witness ==
  /\ lastOp.name = "stopStt"
  /\ lastOp.k # 0
  /\ retryTimeout = 0
  /\ ~isListening

(* C17: a 'not-allowed' or 'service-not-allowed' error ends the listening *)
(* session at once: isListening is false, error is the microphone access  *)
(* message, and no retry is scheduled.                                    *)
C17_Step ==
  lastOp'.name = "onerror" /\ lastOp'.cmd \in {"not-allowed", "service-not-allowed"} =>
    /\ ~isListening'
    /\ sttError' = "Microphone access denied. Please allow it in browser settings."
    /\ retryTimeout' = 0
    /\ ~listeningIntentionally'
C17_MicrophoneRefused == [][C17_Step]_vars

(* the microphone was refused to a session that was listening *)
C17_Witness ==
  /\ lastOp.name = "onerror"
  /\ lastOp.cmd = "service-not-allowed"
  /\ lastOp.empty
  /\ ~isListening
  /\ sttError = "Microphone access denied. Please allow it in browser settings."

(* the caret is in a Text node *)
CaretInText ==
  /\ sel # 0
  /\ IsCollapsed(ranges[sel])
  /\ IsText(Root, ranges[sel].sn)

(* the text of the node that holds the caret, from its start to the caret *)
BeforeCaret == SubSeq(FindNode(Root, ranges[sel].sn).text, 1, ranges[sel].so)

(* "/" followed by characters none of which is whitespace *)
SlashTrigger(t) ==
  /\ Len(t) >= 1
  /\ Head(t) = "/"
  /\ {i \in DOMAIN Tail(t) : Tail(t)[i] \in {" ", NBSP, "\n\n"}} = {}

(* C18: after an input event with the caret in a Text node, the slash     *)
(* menu is open exactly when the text of that node from its start to the  *)
(* caret is "/" followed by no whitespace, and the query of the open menu *)
(* is that text without the "/".                                          *)
C18_MenuFollowsText ==
  lastOp.name = "handleInput" /\ CaretInText =>
    /\ slashMenuState.isOpen <=> SlashTrigger(BeforeCaret)
    /\ slashMenuState.isOpen => slashMenuState.query = Tail(BeforeCaret)

(* "/a" was typed at the start of a Text node *)
C18_Witness ==
  /\ lastOp.name = "handleInput"
  /\ CaretInText
  /\ slashMenuState.isOpen
  /\ slashMenuState.query = <<"a">>
  /\ BeforeCaret = <<"/", "a">>

(* C19: whenever the slash menu is open, the selection is a caret in a    *)
(* Text node and the text of the node before the caret is "/" followed by *)
(* no whitespace; the menu is closed as soon as that stops holding, by    *)
(* typing or by a change of the selection.                                *)
C19_OpenMenuAtTrigger ==
  slashMenuState.isOpen => CaretInText /\ SlashTrigger(BeforeCaret)

(* C20: from the open slash menu, the commit of a command (a block, Ask   *)
(* AI or Table) and the Escape key each leave the menu closed.            *)
C20_Step ==
  slashMenuState.isOpen /\ lastOp'.name \in {"handleCommandSelect", "onClose"} =>
    ~slashMenuState'.isOpen
C20_CommitClosesMenu == [][C20_Step]_vars

(* a heading was committed from the menu and the caret is in it *)
C20_Witness ==
  /\ lastOp.name = "handleCommandSelect"
  /\ lastOp.cmd = "h1"
  /\ ~slashMenuState.isOpen
  /\ sel # 0
  /\ ~IsText(Root, ranges[sel].sn)

(* range r is a caret right after a Text node whose text is t *)
CaretAfterText(r, t) ==
  /\ IsCollapsed(r)
  /\ r.sn \in Ids(Root)
  /\ IF IsText(Root, r.sn)
     THEN FindNode(Root, r.sn).text = t /\ r.so = Len(t)
     ELSE /\ r.so >= 1
          /\ r.so <= Len(FindNode(Root, r.sn).kids)
          /\ FindNode(Root, r.sn).kids[r.so].type = "#text"
          /\ FindNode(Root, r.sn).kids[r.so].text = t

(* C25: after the result of an AI request was inserted at its saved       *)
(* selection, the selection is a caret right after the inserted text.     *)
C25_CursorAfterResult ==
  lastOp.name = "aiResolved" /\ lastOp.empty =>
    sel # 0 /\ CaretAfterText(ranges[sel], lastOp.text)

(* the length of the filtered list of the menu *)
Shown == Len(filteredCommands(slashMenuState.query))

(* two characters that are the same letter, whatever their case *)
SameLetter(a, b) ==
  \/ a = b
  \/ {a, b} \in {{"A", "a"}, {"B", "b"}, {"C", "c"}, {"H", "h"}, {"I", "i"}, {"N", "n"},
                 {"T", "t"}}

(* the commands whose title holds q somewhere, whatever the case *)
Titled(q) ==
  {i \in 1..Len(ALL_COMMANDS) :
     \E k \in 0..(Len(ALL_COMMANDS[i].title) - Len(q)) :
       \A j \in 1..Len(q) : SameLetter(ALL_COMMANDS[i].title[k + j], q[j])}

(* C21: the filtered list is exactly the commands of ALL_COMMANDS whose   *)
(* title contains the query as a substring, whatever the case, in the     *)
(* order of ALL_COMMANDS: all of them for the empty query, none for a     *)
(* query that no title contains.                                          *)
C21_FilteredList ==
  slashMenuState.isOpen =>
    /\ Shown = Cardinality(Titled(slashMenuState.query))
    /\ \A j \in 1..Shown :
         \E i \in Titled(slashMenuState.query) :
           /\ Cardinality({x \in Titled(slashMenuState.query) : x <= i}) = j
           /\ filteredCommands(slashMenuState.query)[j] = ALL_COMMANDS[i]

(* the query "Ta" finds the one command "Table" *)
C21_Witness ==
  /\ slashMenuState.isOpen
  /\ slashMenuState.query = <<"T", "a">>
  /\ Shown = 1
  /\ filteredCommands(slashMenuState.query)[1].action = "table"

(* C22: on a filtered list of n > 0 commands ArrowDown moves the selected *)
(* index from i to (i + 1) mod n and ArrowUp from i to (i - 1) mod n, and *)
(* the index of such a list is always one of 0..n-1.                      *)
C22_Step ==
  /\ lastOp'.name = "menuKey" /\ lastOp'.cmd = "ArrowDown" /\ Shown > 0 =>
       selectedIndex' = (selectedIndex + 1) % Shown
  /\ lastOp'.name = "menuKey" /\ lastOp'.cmd = "ArrowUp" /\ Shown > 0 =>
       selectedIndex' = (selectedIndex - 1) % Shown
  /\ slashMenuState'.isOpen /\ Len(filteredCommands(slashMenuState'.query)) > 0 =>
       selectedIndex' \in 0..(Len(filteredCommands(slashMenuState'.query)) - 1)
C22_ArrowsWrap == [][C22_Step]_vars

(* ArrowUp on the first of several commands went to the last *)
C22_Witness ==
  /\ lastOp.name = "menuKey"
  /\ lastOp.cmd = "ArrowUp"
  /\ lastOp.n = 0
  /\ Shown > 1
  /\ selectedIndex = Shown - 1

(* C23: when the query changes and the filtered list has another length  *)
(* than before, the selected index is 0 afterwards.                       *)
C23_Step ==
  /\ slashMenuState.isOpen
  /\ slashMenuState'.isOpen
  /\ Len(filteredCommands(slashMenuState'.query)) # Shown
  => selectedIndex' = 0
C23_LengthResetsIndex == [][C23_Step]_vars

(* the query changed the length of the list while a later command was selected *)
C23_Witness ==
  /\ lastOp.name = "menuRenders"
  /\ lastOp.empty
  /\ lastOp.n > 0
  /\ lastOp.k # Shown
  /\ selectedIndex = 0

(* C24: on an empty filtered list Enter commits no command and changes    *)
(* neither the document nor the menu, also after arrow keys on the empty  *)
(* list; reading the list at an index it does not have raises no error.   *)
C24_Step ==
  slashMenuState.isOpen /\ Shown = 0 =>
    /\ lastOp'.name # "handleCommandSelect"
    /\ lastOp'.name = "menuKey" /\ lastOp'.cmd = "Enter" =>
         UNCHANGED <<doc, ranges, sel, savedRange, slashMenuState, selectedIndex, note,
                     isAssistantOpen, isTableModalOpen>>
C24_EnterOnEmptyList == [][C24_Step]_vars

(* Enter on the empty list after ArrowUp had moved the index below 0 *)
C24_Witness ==
  /\ lastOp.name = "menuKey"
  /\ lastOp.cmd = "Enter"
  /\ lastOp.n = -1
  /\ slashMenuState.isOpen
  /\ Shown = 0

(* --------------------- note generation and its modal ------------------- *)
NextGen ==
  \/ GenOpen
  \/ \E t \in Topics : GenSetTopic(t)
  \/ \E type \in GenerationTypes : GenSetType(type)
  \/ GenSubmit
  \/ GenClose
  \/ \E i \in 1..MaxPending, sources \in 0..1 : GenResolve(i, sources)
  \/ \E i \in 1..MaxPending, type \in GenerationTypes :
       \E message \in ServiceErrors(type) : GenReject(i, message)
  \/ Tick

SpecGen == Mounted({<<MdBlock("p", <<"a">>)>>}) /\ [][NextGen]_vars

(* C26: a failed note generation changes neither the notes nor the active  *)
(* note id and closes no modal; the modal that made the call, when it is   *)
(* still on screen, then shows the error message with isLoading cleared    *)
(* and its submit handler accepts the topic again.                         *)
C26_Step ==
  lastOp'.name = "generateRejected" =>
    /\ notes' = notes
    /\ activeNoteId' = activeNoteId
    /\ isGeneratorModalOpen' = isGeneratorModalOpen
    /\ note' = note
    /\ ~lastOp'.empty =>
         /\ isGeneratorModalOpen'
         /\ generator'.error \in ServiceErrors(generator.generationType)
         /\ ~generator'.isLoading
         /\ generator'.topic = generator.topic
         /\ Submits(generator')
C26_FailedGeneration == [][C26_Step]_vars
C26_Witness ==
  /\ lastOp.name = "generateRejected" /\ ~lastOp.empty
  /\ isGeneratorModalOpen /\ generator.error # "" /\ Submits(generator)

(* --------------------------- the mind map modal ------------------------ *)
NextViz ==
  \/ VizOpen
  \/ VizClose
  \/ \E i \in 1..MaxPending, data \in MindMaps, size \in ContainerSizes, fitted \in BOOLEAN :
       VizResolve(i, data, size, fitted)
  \/ \E i \in 1..MaxPending, message \in MindMapErrors : VizReject(i, message)
  \/ \E deltaY \in WheelDeltas, mouse \in Pointers : VizWheel(deltaY, mouse)

SpecViz == Mounted({<<MdBlock("p", <<"a">>)>>}) /\ [][NextViz]_vars

(* C27: when generateMindMap settles after the modal that called it was    *)
(* closed, its result or error sets nothing: mindMap, error and isLoading  *)
(* of the closed modal, and of a modal opened since, stay as they were.    *)
C27_Step ==
  lastOp'.name = "mindMapSettled" /\ lastOp'.empty =>
    /\ viz' = viz
    /\ isVisualizationModalOpen' = isVisualizationModalOpen
C30_Step ==
  lastOp'.name = "wheel" => viz'.transform.scale >= 200 /\ viz'.transform.scale <= 2000
C30_ScaleClamped == [][C30_Step]_vars
C30_Witness ==
  /\ lastOp.name = "wheel" /\ lastOp.m < 200 /\ lastOp.n > 0
  /\ viz.transform.scale = 200

(* ----------------------------- the layout ------------------------------ *)
NextLayout ==
  \/ \E mindMapData \in MindMaps : LayoutCall(mindMapData)
  \/ LayoutIterate
  \/ LayoutReturn
  \/ Tick

SpecLayout == Mounted({<<MdBlock("p", <<"a">>)>>}) /\ [][NextLayout]_vars

(* C28: a call of calculateLayout returns after exactly 150 passes of the *)
(* relaxation loop: each pass adds one to a counter that starts at 0, the  *)
(* loop goes on exactly while the counter is below 150, whatever the       *)
(* positions and the clock are, and the call returns with the counter at   *)
(* 150.                                                                    *)
C28_Step ==
  /\ lastOp'.name = "calculateLayout" => layout'.i = 0 /\ layout'.phase = "running"
  /\ lastOp'.name = "relax" =>
       layout'.i = layout.i + 1 /\ layout'.i <= iterations /\ layout'.phase = "running"
  /\ lastOp'.name = "layoutReturned" => layout.i = iterations /\ layout'.i = iterations
  /\ layout.phase = "running" => (LoopRuns(layout) <=> layout.i < iterations)
C28_ReturnsAfterIterations == [][C28_Step]_vars
C28_Witness ==
  /\ lastOp.name = "layoutReturned" /\ layout.i = iterations
  /\ Len(layout.nodes) > 4 /\ layout.nodes # Seed(layout.data)

C38_Step == lastOp'.name = "startStt" /\ isListening' => retryCount' = 0
C38_FullRetryBudget == [][C38_Step]_vars

(* the message of a scheduled retry *)
Retrying == "Connection unstable. Retrying..."

(* C39: while a retry is pending after a 'network' error, isListening is   *)
(* true and the retrying message is set, also after the end event of the   *)
(* recognition; the next result event clears the message.                  *)
C39_Step ==
  /\ retryTimeout' # 0 => isListening' /\ sttError' = Retrying
  /\ lastOp'.name = "onresult" => sttError' = ""
C39_RetryPending == [][C39_Step]_vars

(* the recognition has ended while the retry is pending *)
C39_Witness ==
  /\ lastOp.name = "onend"
  /\ retryTimeout # 0
  /\ isListening /\ sttError = Retrying

(* the text of the cursor's block, trimmed, and what it holds besides the  *)
(* trigger "/" + query                                                     *)
CursorBlockText ==
  IF sel = 0 \/ getBlockContainer(Root, ranges[sel].sn) = NoBlock THEN <<>>
  ELSE Trim(textContent(FindNode(Root, getBlockContainer(Root, ranges[sel].sn))))
BesidesTrigger(text, trigger) ==
  IF StartsWith(text, trigger) THEN SubSeq(text, Len(trigger) + 1, Len(text)) ELSE text

(* C36: the commit of a slash command deletes no text but the trigger:     *)
(* what the cursor's block holds besides "/" + query is still in the       *)
(* document after the command.                                             *)
C36_Step ==
  lastOp'.name = "handleCommandSelect" =>
    Includes(textContent(EditorRoot(doc')),
             BesidesTrigger(CursorBlockText, <<"/">> \o slashMenuState.query))
C36_KeepsOtherText == [][C36_Step]_vars

(* the seeded position the node with this id has, and the place at distance *)
(* CHILD_RADIUS from main at angle parentAngle + (j - (m - 1) / 2) * 0.5,  *)
(* parentAngle being the direction from the centre to main                 *)
SeededNode(layoutNodes, id) == layoutNodes[FindLayoutNode(layoutNodes, id)]
AroundMain(main, j, m) ==
  Polar(main.x, main.y, CHILD_RADIUS,
        Atan2(main.y - Px(CENTER_Y), main.x - Px(CENTER_X)) + (2 * j - (m - 1)) * 2500)
Near(a, b) == a - b <= Px(1) /\ b - a <= Px(1)

(* C34: in the seeded layout child j of a main topic with m children lies  *)
(* at distance 100 from the seeded position of that main topic, at angle   *)
(* parentAngle + (j - (m - 1) / 2) * 0.5, for every j (to within a pixel). *)
C34_ChildrenAroundParent ==
  lastOp.name = "calculateLayout" =>
    \A i \in 1..Len(layout.data.nodes) :
      \A j \in 1..Len(layout.data.nodes[i].children) :
        LET Placed(child, at) == Near(child.x, at.x) /\ Near(child.y, at.y)
        IN Placed(SeededNode(layout.nodes, layout.data.nodes[i].children[j].id),
                  AroundMain(SeededNode(layout.nodes, layout.data.nodes[i].id), j - 1,
                             Len(layout.data.nodes[i].children)))

(* C35: through seeding and every pass of the loop the central node stays  *)
(* at (500, 500) as it was seeded, it is the only node with isFixed true,  *)
(* and so a repulsion against it moves the other node of the pair only.    *)
C35_CentralFixed ==
  layout.phase # "idle" =>
    /\ layout.nodes[1] = centralNode(layout.data)
    /\ layout.nodes[1].x = Px(500) /\ layout.nodes[1].y = Px(500)
    /\ layout.nodes[1].isFixed
    /\ \A k \in 2..Len(layout.nodes) : ~layout.nodes[k].isFixed

(* a pass in which the central node has repelled a node *)
C35_Witness ==
  /\ lastOp.name = "relax" /\ lastOp.wrote
  /\ layout.nodes[1].x = Px(500) /\ layout.nodes[1].y = Px(500)
  /\ layout.nodes[2].x - Px(500) >= layout.nodes[1].width \div 2 + layout.nodes[2].width \div 2

(* C31: a wheel zoom keeps the canvas point under the pointer: with the    *)
(* pointer at p, (p - newTranslation) / newScale = (p - oldTranslation) /  *)
(* oldScale on both axes (to within the rounding of one division), also    *)
(* when the new scale was clamped.                                         *)
SamePoint(p, x, scale, nextX, nextScale) ==
  /\ (p - x) * nextScale - (p - nextX) * scale >= 0
  /\ (p - x) * nextScale - (p - nextX) * scale < scale
C31_Step ==
  lastOp'.name = "wheel" =>
    /\ viz.transform.scale > 0
    /\ SamePoint(Px(lastOp'.k), viz.transform.x, viz.transform.scale,
                 viz'.transform.x, viz'.transform.scale)
    /\ SamePoint(Px(lastOp'.block), viz.transform.y, viz.transform.scale,
                 viz'.transform.y, viz'.transform.scale)
C31_PointerPointKept == [][C31_Step]_vars

(* a zoom whose scale was clamped, the pointer away from the canvas origin *)
C31_Witness ==
  /\ lastOp.name = "wheel"
  /\ lastOp.m - lastOp.n > 2000 \/ lastOp.m - lastOp.n < 200
  /\ viz.transform.scale # lastOp.m
  /\ lastOp.k # 0 /\ viz.transform.x # Px(lastOp.k) /\ viz.transform.y # Px(lastOp.block)

(* ------------------------------- panning ------------------------------- *)
NextPan ==
  \/ VizOpen
  \/ VizClose
  \/ \E i \in 1..MaxPending : VizResolve(i, MindMapData(<<"t">>, <<>>), <<800, 525>>, TRUE)
  \/ \E onNode \in BOOLEAN, client \in Pointers : VizMouseDown(onNode, client)
  \/ VizMouseUp
  \/ VizMouseLeave
  \/ \E client \in Pointers : VizMouseMove(client)
  \/ \E deltaY \in {-100, 3000} : VizWheel(deltaY, <<400, 300>>)

SpecPan == Mounted({<<MdBlock("p", <<"a">>)>>}) /\ [][NextPan]_vars

(* C32: a pointer movement changes the translation only between a         *)
(* mouse-down that was not on a mind-map node and the next mouse-up or     *)
(* mouse-leave; outside such a gesture it leaves the transform as it was,  *)
(* and no movement changes the scale.                                      *)
C32_Step ==
  lastOp'.name = "mouseMove" =>
    /\ viz'.transform.scale = viz.transform.scale
    /\ ~viz.gesture => viz'.transform = viz.transform
    /\ viz'.transform # viz.transform => viz.gesture
C32_PanOnlyInGesture == [][C32_Step]_vars

(* a movement after the gesture has ended that would have moved the canvas *)
C32_Witness ==
  /\ lastOp.name = "mouseMove" /\ ~viz.gesture /\ ~lastOp.wrote
  /\ viz.panStart # <<0, 0>>
  /\ viz.transform.x # Px(lastOp.k) - viz.panStart[1]

(* --------------------------- checklists stored ------------------------- *)
TodoContents ==
  { <<MdList("ul", <<"-">>, <<MdItem(<<"a">>, "[x]")>>)>>,
    <<MdList("ul", <<"-">>, <<MdItem(<<"a">>, "[x]"), MdItem(<<"b">>, "[ ]")>>)>> }

NextTodo ==
  \/ \E r \in Carets(Root) : MouseSelect(r)
  \/ KeyPress("a")
  \/ Blur
  \/ Reopen

SpecTodo == Mounted(TodoContents) /\ [][NextTodo]_vars

(* the checklist items of a tree in document order: the text and the flag  *)
(* of every list item that holds a checkbox                                *)
RECURSIVE TodoItems(_)
TodoItems(ks) ==
  IF ks = <<>> THEN <<>>
  ELSE LET Item(n, boxes) ==
             IF n.type = "li" /\ boxes # {}
             THEN <<[t |-> Trim(textContent(n)),
                     checked |-> n.kids[CHOOSE i \in boxes : TRUE].checked]>>
             ELSE TodoItems(n.kids)
       IN Item(Head(ks), {i \in 1..Len(Head(ks).kids) : Head(ks).kids[i].type = "input"})
            \o TodoItems(Tail(ks))

(* C33: serializing the live tree and loading the result again preserves   *)
(* every checklist item and its checked flag; on load every list item with *)
(* a checkbox is a to-do item again; a second round trip gives the items   *)
(* and flags of the first.                                                 *)
C33_Step ==
  lastOp'.name = "reopen" /\ ~lastOp'.empty =>
    /\ TodoItems(doc') = TodoItems(doc)
    /\ TodoItems(InitialRender(Turndown(doc'))) = TodoItems(doc')
C33_ChecklistRoundTrip == [][C33_Step]_vars

(* ------------------------- the note collection ------------------------- *)
NextNotes ==
  \/ AddNote
  \/ \E i \in 1..Len(AppNotes) : SelectNote(i)
  \/ \E i \in 1..Len(AppNotes) : DeleteNote(i)
  \/ EditTitle(<<"y">>)
  \/ GenOpen
  \/ GenSetTopic(<<"x">>)
  \/ GenSubmit
  \/ GenClose
  \/ \E i \in 1..MaxPending : GenResolve(i, 0)
  \/ Tick

SpecNotes == Mounted({<<MdBlock("p", <<"a">>)>>}) /\ [][NextNotes]_vars

(* C37: when a note generation completes, exactly the generated note is    *)
(* added: the notes the collection holds at that moment, with what was     *)
(* added, edited or deleted while the call was in flight, all stay as they *)
(* are behind the new note.                                                *)
C37_Step ==
  lastOp'.name = "generateResolved" =>
    /\ Len(notes') = Len(AppNotes) + 1
    /\ notes'[1].id = activeNoteId'
    /\ SubSeq(notes', 2, Len(notes')) = AppNotes
C37_OnlyGeneratedNoteAdded == [][C37_Step]_vars

(* C40: after every operation on the collection activeNoteId is null or    *)
(* the id of a note in it; the deletion of the active note makes the most  *)
(* recently modified of the notes that remain the active one, or none when *)
(* no note remains.                                                        *)
C40_Step ==
  /\ activeNoteId' = NoNote \/ \E i \in 1..Len(notes') : notes'[i].id = activeNoteId'
  /\ lastOp'.name = "deleteNote" /\ lastOp'.wrote =>
       IF notes' = <<>> THEN activeNoteId' = NoNote
       ELSE \E i \in 1..Len(notes') :
              /\ notes'[i].id = activeNoteId'
              /\ \A j \in 1..Len(notes') : notes'[j].lastModified <= notes'[i].lastModified
C40_ActiveNoteInCollection == [][C40_Step]_vars

====
